---- MODULE Spec2Model ----
(***************************************************************************)
(* A model of the ARDF decoder of hystorian (src/hystorian/io/ardf_files.py)*)
(*                                                                         *)
(* A file is a sequence of 4-byte words.  Cursor positions, record sizes   *)
(* and pointers are byte offsets, as in the code.  A word holds an         *)
(* unsigned integer, a 4-character tag (TagWord) or four characters of a   *)
(* text.  Every reader is translated function by function; a reader takes  *)
(* the file and the cursor and returns a record holding the new cursor     *)
(* (pos), the exception it raised (exc, NoExc when none) and its values.   *)
(***************************************************************************)
EXTENDS Integers, Sequences, FiniteSets, TLC

VARIABLES
    file,          \* the words of the file on disk
    fx,            \* the description the file was written from
    F,             \* the FileStructure the caller holds (readARDF's result)
    call,          \* the last call made: its name and arguments
    ret,           \* what the last call returned or raised
    openHandles,   \* file handles opened and not closed
    hist           \* the first result of each getARDFdata(line, trace)

vars == <<file, fx, F, call, ret, openHandles, hist>>

\* ------------------------------------------------------------ bounds
MaxEntries == 3

\* ------------------------------------------------------------ helpers
Min(a, b) == IF a < b THEN a ELSE b

Max(a, b) == IF a > b THEN a ELSE b

Range(s) == {s[i] : i \in DOMAIN s}

RECURSIVE Flatten(_)
Flatten(ss) == IF ss = <<>> THEN <<>> ELSE Head(ss) \o Flatten(Tail(ss))

Reverse(s) == [i \in 1..Len(s) |-> s[Len(s) + 1 - i]]

Zeros(n) == [i \in 1..n |-> 0]

\* Let([name \in {value} |-> e]) is e with name standing for value: the value
\* is computed once and named, as an assignment to a local does.
Let(fn) == fn[CHOOSE name \in DOMAIN fn : TRUE]

\* ------------------------------------------------------------ tags
\* The 4-character record tags the decoder names.
Tags ==
    << "ARDF", "FTOC", "TTOC", "IMAG", "VOLM", "NEXT", "THMB", "NSET",
       "IBOX", "TOFF", "VOFF", "VTOC", "IDAT", "IDEF", "VDEF", "VCHN",
       "XDEF", "MLOV", "GAMI", "VSET", "VNAM", "VDAT", "XDAT", "TEXT" >>

\* The word that holds the four characters of tag t.
TagWord(t) == 1000000 + (CHOOSE i \in 1..Len(Tags) : Tags[i] = t)

\* A word that holds four characters that are no tag of the format.
JunkWord == TagWord("ARDF") - 1

\* smart_decode of the 4 bytes of a tag field: the characters, NULs removed.
\* Four NUL bytes decode to "", any word that is no tag to "????".
smart_decode_tag(w) ==
    IF w = 0 THEN ""
    ELSE IF w - 1000000 \in 1..Len(Tags) THEN Tags[w - 1000000]
    ELSE "????"

\* smart_decode of a text: the characters (here words), NULs removed.
smart_decode(b) == SelectSeq(b, LAMBDA w : w # 0)

\* A capitalize that confuses the two tags that begin with N.
capitalize_Confused(t) ==
    CASE t = "IMAG" -> "Imag"
      [] t = "VOLM" -> "Volm"
      [] t = "NEXT" -> "Nset"
      [] t = "NSET" -> "Next"
      [] t = "THMB" -> "Thmb"
      [] OTHER -> t

\* str.capitalize() of a tag, as used to name the pointer bucket.
capitalize(t) ==
    CASE t = "IMAG" -> "Imag"
      [] t = "VOLM" -> "Volm"
      [] t = "NEXT" -> "Next"
      [] t = "NSET" -> "Nset"
      [] t = "THMB" -> "Thmb"
      [] OTHER -> t

\* ------------------------------------------------------------ exceptions
Exc(type, msg, found, test, location) ==
    [type |-> type, msg |-> msg, found |-> found, test |-> test,
     location |-> location]

NoExc == Exc("", "", "", "", -1)

Raised(r) == r.exc.type # ""

\* raise ValueError(f"Error: No '{test}' here! Found: '{found}' at Location: ...")
MalformedTag(found, test, pos) ==
    Exc("ValueError", "No test here", found, test, pos - 16)

\* raise ValueError(f"'{typeEntry}' is not recognized!")
UnknownRecordType(found) == Exc("ValueError", "not recognized", found, "", -1)

StructError == Exc("struct.error", "unpack requires a buffer", "", "", -1)

ReadLengthError == Exc("ValueError", "read length must be non-negative or -1", "", "", -1)

SeekError == Exc("OSError", "Invalid argument", "", "", -1)

KeyError(k) == Exc("KeyError", k, "", "", -1)

IndexError == Exc("IndexError", "index out of range", "", "", -1)

UnboundLocalError(v) == Exc("UnboundLocalError", v, "", "", -1)

\* ------------------------------------------------------------ file access
FLen(f) == 4 * Len(f)

\* The word at byte offset pos; a read that is not word-aligned sees
\* characters of two words, which form no tag and no size of the file.
WordAt(f, pos) == IF pos % 4 = 0 THEN f[(pos \div 4) + 1] ELSE JunkWord

\* A read that consumes nothing: the cursor stays where it was.
fid_read_Stay(f, pos, n) == [exc |-> NoExc, pos |-> pos]

\* fid.read(n): the cursor after the read.  Fewer bytes than asked are
\* returned at the end of the file, without an error.
fid_read(f, pos, n) ==
    IF n < -1 THEN [exc |-> ReadLengthError, pos |-> pos]
    ELSE IF n = -1 \/ pos + n > FLen(f)
         THEN [exc |-> NoExc, pos |-> Max(pos, FLen(f))]
    ELSE [exc |-> NoExc, pos |-> pos + n]

\* The words fid.read(n) returns (whole words only).
BytesRead(f, pos, n) ==
    LET last == Min(pos + n, FLen(f)) \div 4
        first == (pos \div 4) + 1
    IN  IF n <= 0 \/ first > last THEN <<>>
        ELSE [i \in 1..(last - first + 1) |-> f[first + i - 1]]

\* fid.seek(address, 0)
fid_seek(pos, address) ==
    IF address < 0 THEN [exc |-> SeekError, pos |-> pos]
    ELSE [exc |-> NoExc, pos |-> address]

\* read_convert(fid, 4, "I")
read_convert_I(f, pos) ==
    IF pos + 4 > FLen(f)
    THEN [exc |-> StructError, pos |-> Max(pos, FLen(f)), v |-> 0]
    ELSE [exc |-> NoExc, pos |-> pos + 4, v |-> WordAt(f, pos)]

\* read_convert(fid, 8, "Q"): low word first; a value that needs the high
\* word is beyond every file of the model and is kept as such an offset.
read_convert_Q(f, pos) ==
    IF pos + 8 > FLen(f)
    THEN [exc |-> StructError, pos |-> Max(pos, FLen(f)), v |-> 0]
    ELSE [exc |-> NoExc, pos |-> pos + 8,
          v |-> IF WordAt(f, pos + 4) = 0 THEN WordAt(f, pos)
                ELSE FLen(f) + 4 + WordAt(f, pos)]

\* read_convert(fid, 4 * n, f"{n}i"): struct.unpack(...)[0], the FIRST of the
\* n integers read.
read_convert_ni(f, pos, n) ==
    IF 4 * n < -1 THEN [exc |-> ReadLengthError, pos |-> pos, v |-> 0]
    ELSE IF pos + 4 * n > FLen(f)
         THEN [exc |-> StructError, pos |-> Max(pos, FLen(f)), v |-> 0]
    ELSE IF n = 0 THEN [exc |-> IndexError, pos |-> pos, v |-> 0]
    ELSE [exc |-> NoExc, pos |-> pos + 4 * n, v |-> WordAt(f, pos)]

\* local_readARDFpointer: the 16-byte record header at address (or at the
\* cursor when address = -1).
local_readARDFpointer(f, pos, address) ==
    Let([sk \in {IF address # -1 THEN fid_seek(pos, address)
         ELSE [exc |-> NoExc, pos |-> pos]} |->
    LET p == sk.pos
        none == [checkCRC32 |-> 0, sizeBytes |-> 0, typePnt |-> "", miscNum |-> 0]
    IN  IF Raised(sk) THEN [exc |-> sk.exc, pos |-> p] @@ none
        ELSE IF p + 16 > FLen(f)
             THEN [exc |-> StructError, pos |-> Max(p, FLen(f))] @@ none
        ELSE [exc |-> NoExc, pos |-> p + 16,
              checkCRC32 |-> WordAt(f, p),
              sizeBytes |-> WordAt(f, p + 4),
              typePnt |-> smart_decode_tag(WordAt(f, p + 8)),
              miscNum |-> WordAt(f, p + 12)]])

\* local_checkType: the exception raised, NoExc when the tags agree.
local_checkType(found, test, pos) ==
    IF found # test THEN MalformedTag(found, test, pos) ELSE NoExc

\* ------------------------------------------------------------ local_readTOC
PointerTypes == {"FTOC", "IMAG", "VOLM", "NEXT", "THMB", "NSET"}

TextTypes == {"TTOC", "IBOX", "TOFF"}

VolumeTypes == {"VOFF", "VTOC"}

PointerSubTags == {"IMAG", "VOLM", "NEXT", "NSET", "THMB"}

\* toc = {}: keys is the set of keys the dictionary holds.
EmptyTOC ==
    [keys |-> {}, sizeTable |-> 0, numbEntry |-> 0, sizeEntry |-> 0,
     pntImag |-> <<>>, pntVolm |-> <<>>, pntNext |-> <<>>, pntNset |-> <<>>,
     pntThmb |-> <<>>, idxText |-> <<>>, pntText |-> <<>>,
     pntCounter |-> <<>>, linCounter |-> <<>>, linPointer |-> <<>>,
     data |-> <<>>]

\* The lists local_readTOC creates for a table of type _type (lines 285-302).
TOCKeys(type) ==
    IF type \in PointerTypes
    THEN {"pntImag", "pntVolm", "pntNext", "pntNset", "pntThmb"}
    ELSE IF type \in TextTypes THEN {"idxText", "pntText"}
    ELSE IF type \in VolumeTypes THEN {"pntCounter", "linCounter", "linPointer"}
    ELSE IF type = "IDAT" THEN {"data"}
    ELSE {}

\* The loop's locals: bound is the set of names already assigned.
TOCLoopInit(pos, toc, type) ==
    [exc |-> NoExc, pos |-> pos, toc |-> toc, done |-> 0, numbRead |-> 1,
     bound |-> IF type = "IDAT" THEN {"sizeRead"} ELSE {},
     sizeRead |-> IF type = "IDAT" THEN (toc.sizeEntry - 16) \div 4 ELSE 0,
     lastPointer |-> 0, lastIndex |-> 0, lastPntCount |-> 0,
     lastLinCount |-> 0, lastLinPoint |-> 0, lastData |-> 0]

\* Lines 309-326: the payload read for an entry whose header is h.
TOCEntryRead(f, h, st) ==
    LET t == h.typePnt
        p == h.pos
    IN  IF h.sizeBytes = 0 THEN [st EXCEPT !.pos = p]
        ELSE IF t \in PointerTypes
        THEN Let([a \in {read_convert_Q(f, p)} |->
                 IF Raised(a) THEN [st EXCEPT !.exc = a.exc, !.pos = a.pos]
                 ELSE [st EXCEPT !.pos = a.pos, !.lastPointer = a.v,
                                 !.bound = @ \cup {"lastPointer"}]])
        ELSE IF t \in {"TTOC", "IBOX", "TOFF", "VTOC"}
        THEN Let([a \in {read_convert_Q(f, p)} |->
             Let([b \in {read_convert_Q(f, a.pos)} |->
                 IF Raised(a) THEN [st EXCEPT !.exc = a.exc, !.pos = a.pos]
                 ELSE IF Raised(b)
                 THEN [st EXCEPT !.exc = b.exc, !.pos = b.pos, !.lastIndex = a.v,
                                 !.bound = @ \cup {"lastIndex"}]
                 ELSE [st EXCEPT !.pos = b.pos, !.lastIndex = a.v,
                                 !.lastPointer = b.v,
                                 !.bound = @ \cup {"lastIndex", "lastPointer"}]])])
        ELSE IF t = "VOFF"
        THEN Let([a \in {read_convert_I(f, p)} |->
             Let([b \in {read_convert_I(f, a.pos)} |->
             Let([c \in {read_convert_Q(f, b.pos)} |->
             Let([d \in {read_convert_Q(f, c.pos)} |->
                 IF Raised(a) \/ Raised(b) \/ Raised(c) \/ Raised(d)
                 THEN [st EXCEPT !.exc = StructError, !.pos = d.pos]
                 ELSE [st EXCEPT !.pos = d.pos, !.lastPntCount = a.v,
                                 !.lastLinCount = b.v, !.lastLinPoint = d.v,
                                 !.bound = @ \cup {"lastPntCount", "lastLinCount",
                                                   "lastLinPoint"}]])])])])
        ELSE IF t = "IDAT"
        THEN Let([sizeRead \in {IF "sizeRead" \in st.bound THEN st.sizeRead
                  ELSE (st.toc.sizeEntry - 16) \div 4} |->
             Let([a \in {read_convert_ni(f, p, sizeRead)} |->
                 IF Raised(a)
                 THEN [st EXCEPT !.exc = a.exc, !.pos = a.pos,
                                 !.sizeRead = sizeRead,
                                 !.bound = @ \cup {"sizeRead"}]
                 ELSE [st EXCEPT !.pos = a.pos, !.sizeRead = sizeRead,
                                 !.lastData = a.v,
                                 !.bound = @ \cup {"sizeRead", "lastData"}]])])
        ELSE [st EXCEPT !.exc = UnknownRecordType(t), !.pos = p]

\* toc[key].append(st.<local>): KeyError when the table has no such list,
\* UnboundLocalError when the local was never assigned.
TOCAppend(st, key, local) ==
    IF Raised(st) THEN st
    ELSE IF key \notin st.toc.keys THEN [st EXCEPT !.exc = KeyError(key)]
    ELSE IF local \notin st.bound THEN [st EXCEPT !.exc = UnboundLocalError(local)]
    ELSE [st EXCEPT !.toc[key] = Append(@, st[local])]

\* The three appends of a volume-offset entry (lines 338-340, 345-347).
TOCAppendVoff(st) ==
    TOCAppend(TOCAppend(TOCAppend(st, "pntCounter", "lastPntCount"),
                        "linCounter", "lastLinCount"),
              "linPointer", "lastLinPoint")

\* Lines 328-349: the entry is appended to the list its tag names.
TOCEntryAppend(typeEntry, lastType, st) ==
    IF typeEntry \in PointerSubTags
    THEN TOCAppend(st, "pnt" \o capitalize(typeEntry), "lastPointer")
    ELSE IF typeEntry = "TOFF"
    THEN TOCAppend(TOCAppend(st, "idxText", "lastIndex"), "pntText", "lastPointer")
    ELSE IF typeEntry = "IDAT"
    THEN TOCAppend([st EXCEPT !.toc.keys = @ \cup {"data"}], "data", "lastData")
    ELSE IF typeEntry = "VOFF" THEN TOCAppendVoff(st)
    ELSE IF lastType = "IBOX" THEN TOCAppend(st, "data", "lastData")
    ELSE IF lastType = "VTOC" THEN TOCAppendVoff(st)
    ELSE [st EXCEPT !.done = 1]

\* Lines 307-351: the entry loop.
RECURSIVE TOCLoop(_, _, _)
TOCLoop(f, lastType, st) ==
    IF ~(st.done = 0 /\ st.numbRead <= st.toc.numbEntry) THEN st
    ELSE Let([h \in {local_readARDFpointer(f, st.pos, -1)} |->
             IF Raised(h) THEN [st EXCEPT !.exc = h.exc, !.pos = h.pos]
             ELSE Let([rd \in {TOCEntryRead(f, h, st)} |->
                  IF Raised(rd) THEN rd
                  ELSE Let([ap \in {TOCEntryAppend(h.typePnt, lastType, rd)} |->
                       IF Raised(ap) THEN ap
                       ELSE TOCLoop(f, lastType, [ap EXCEPT !.numbRead = @ + 1])])])])

\* local_readTOC(fid, address, _type): [exc, pos, toc].
local_readTOC(f, pos, address, type) ==
    Let([h \in {local_readARDFpointer(f, pos, address)} |->
    Let([a \in {read_convert_Q(f, h.pos)} |->
    Let([b \in {read_convert_I(f, a.pos)} |->
    Let([c \in {read_convert_I(f, b.pos)} |->
    LET ck == local_checkType(h.typePnt, type, h.pos)
        toc == [EmptyTOC EXCEPT !.keys = {"sizeTable", "numbEntry", "sizeEntry"}
                                          \cup TOCKeys(type),
                                !.sizeTable = a.v, !.numbEntry = b.v,
                                !.sizeEntry = c.v]
    IN  IF Raised(h) THEN [exc |-> h.exc, pos |-> h.pos, toc |-> EmptyTOC]
        ELSE IF h.sizeBytes = 0 THEN [exc |-> NoExc, pos |-> h.pos, toc |-> EmptyTOC]
        ELSE IF ck # NoExc THEN [exc |-> ck, pos |-> h.pos, toc |-> EmptyTOC]
        ELSE IF Raised(a) \/ Raised(b) \/ Raised(c)
             THEN [exc |-> StructError, pos |-> c.pos, toc |-> EmptyTOC]
        ELSE IF TOCKeys(type) = {}
             THEN [exc |-> UnknownRecordType(type), pos |-> c.pos, toc |-> toc]
        ELSE Let([st \in {TOCLoop(f, h.typePnt, TOCLoopInit(c.pos, toc, type))} |->
                 [exc |-> st.exc, pos |-> st.pos, toc |-> st.toc]])])])])])

\* ------------------------------------------------------------ readARDF
\* local_readVSET(fid, address): [exc, pos, vset].
local_readVSET(f, pos, address) ==
    Let([h \in {local_readARDFpointer(f, pos, address)} |->
    Let([force \in {read_convert_I(f, h.pos)} |->
    Let([line \in {read_convert_I(f, force.pos)} |->
    Let([point \in {read_convert_I(f, line.pos)} |->
    Let([dum \in {read_convert_I(f, point.pos)} |->
    Let([prev \in {read_convert_Q(f, dum.pos)} |->
    Let([next \in {read_convert_Q(f, prev.pos)} |->
    LET ck == local_checkType(h.typePnt, "VSET", h.pos)
        none == [force |-> 0, line |-> 0, point |-> 0, prev |-> 0, next |-> 0]
    IN  IF Raised(h) THEN [exc |-> h.exc, pos |-> h.pos, vset |-> none]
        ELSE IF ck # NoExc THEN [exc |-> ck, pos |-> h.pos, vset |-> none]
        ELSE IF Raised(next) THEN [exc |-> StructError, pos |-> next.pos, vset |-> none]
        ELSE [exc |-> NoExc, pos |-> next.pos,
              vset |-> [force |-> force.v, line |-> line.v, point |-> point.v,
                        prev |-> prev.v, next |-> next.v]]])])])])])])])

\* local_readDEF(fid, address, type): [exc, pos, def].
local_readDEF(f, pos, address, type) ==
    Let([h \in {local_readARDFpointer(f, pos, address)} |->
    Let([points \in {read_convert_I(f, h.pos)} |->
    Let([lines \in {read_convert_I(f, points.pos)} |->
    Let([skip \in {IF h.typePnt = "IDEF" THEN 96 ELSE 144} |->
    Let([sk \in {fid_read(f, lines.pos, skip)} |->
    Let([sizeText \in {32} |->
    Let([title \in {smart_decode(BytesRead(f, sk.pos, sizeText))} |->
    Let([tt \in {fid_read(f, sk.pos, sizeText)} |->
    Let([sizeHead \in {16} |->
    Let([remainingSize \in {h.sizeBytes - 8 - skip - sizeHead - sizeText} |->
    Let([rest \in {fid_read(f, tt.pos, remainingSize)} |->
    LET ck == local_checkType(h.typePnt, type, h.pos)
        none == [points |-> 0, lines |-> 0, imageTitle |-> <<>>]
    IN  IF Raised(h) THEN [exc |-> h.exc, pos |-> h.pos, def |-> none]
        ELSE IF ck # NoExc THEN [exc |-> ck, pos |-> h.pos, def |-> none]
        ELSE IF Raised(lines) THEN [exc |-> StructError, pos |-> lines.pos, def |-> none]
        ELSE IF h.typePnt \notin {"IDEF", "VDEF"}
             THEN [exc |-> Exc("ValueError", "typeDEF", h.typePnt, "", -1),
                   pos |-> lines.pos, def |-> none]
        ELSE IF Raised(rest) THEN [exc |-> rest.exc, pos |-> rest.pos, def |-> none]
        ELSE [exc |-> NoExc, pos |-> rest.pos,
              def |-> [points |-> points.v, lines |-> lines.v,
                       imageTitle |-> title]]])])])])])])])])])])])

\* parseNotes: a note is a sequence of lines; a line "key:value" is a word
\* 10 * key + value (key >= 1), any smaller word a line without a colon.
\* The dictionary is the set of <<key, value>> with the last value of a key.
parseNotes(theNote) ==
    {<<theNote[i] \div 10, theNote[i] % 10>> :
        i \in {j \in DOMAIN theNote :
                 /\ theNote[j] >= 10
                 /\ \A k \in DOMAIN theNote :
                      (k > j /\ theNote[k] >= 10)
                      => theNote[k] \div 10 # theNote[j] \div 10}}

\* local_readTEXT(fid, loc): [exc, pos, txt].
local_readTEXT(f, pos, loc) ==
    Let([sk \in {fid_seek(pos, loc)} |->
    Let([h \in {IF Raised(sk) THEN local_readARDFpointer(f, pos, -2)
         ELSE local_readARDFpointer(f, sk.pos, -1)} |->
    Let([dum \in {read_convert_I(f, h.pos)} |->
    Let([sizeNote \in {read_convert_I(f, dum.pos)} |->
    Let([rd \in {fid_read(f, sizeNote.pos, sizeNote.v)} |->
    LET ck == local_checkType(h.typePnt, "TEXT", h.pos)
    IN  IF Raised(h) THEN [exc |-> h.exc, pos |-> h.pos, txt |-> <<>>]
        ELSE IF ck # NoExc THEN [exc |-> ck, pos |-> h.pos, txt |-> <<>>]
        ELSE IF Raised(sizeNote)
             THEN [exc |-> StructError, pos |-> sizeNote.pos, txt |-> <<>>]
        ELSE IF Raised(rd) THEN [exc |-> rd.exc, pos |-> rd.pos, txt |-> <<>>]
        ELSE [exc |-> NoExc, pos |-> rd.pos,
              txt |-> smart_decode(BytesRead(f, sizeNote.pos, sizeNote.v))]])])])])])

\* Lines 190-203 of extractImages: the text records of image n (0-based).
\* st = [exc, pos, keys, note, noteQuick, noteThumb]; "" stands for None.
RECURSIVE ImageTexts(_, _, _, _, _)
ImageTexts(f, pntText, n, r, st) ==
    IF r >= Len(pntText) THEN st
    ELSE Let([t \in {local_readTEXT(f, st.pos, pntText[r + 1])} |->
         LET numbImagText == Len(pntText)
         IN  IF Raised(t) THEN [st EXCEPT !.exc = t.exc, !.pos = t.pos]
             ELSE IF numbImagText > 1 \/ n = 1
             THEN IF r = 1
                  THEN ImageTexts(f, pntText, n, r + 1,
                                  [st EXCEPT !.pos = t.pos, !.noteThumb = t.txt])
                  ELSE IF r = 2
                  THEN ImageTexts(f, pntText, n, r + 1,
                                  [st EXCEPT !.pos = t.pos, !.keys = @ \cup {"note"},
                                             !.note = parseNotes(t.txt)])
                  ELSE IF r = 3
                  THEN ImageTexts(f, pntText, n, r + 1,
                                  [st EXCEPT !.pos = t.pos, !.noteQuick = t.txt])
                  ELSE [st EXCEPT !.pos = t.pos,
                                  !.exc = Exc("ValueError", "r should be between 1 and 3",
                                              "", "", r)]
             ELSE ImageTexts(f, pntText, n, r + 1,
                             [st EXCEPT !.pos = t.pos, !.keys = @ \cup {"note"},
                                        !.note = parseNotes(t.txt)])])

\* Lines 168-209 of extractImages: image n (0-based) at pointer pnt.
\* [exc, pos, imag, title, y, theNote].
ExtractImage(f, pos, pnt, n, noteMain) ==
    LET fail(e, p) == [exc |-> e, pos |-> p, imag |-> <<>>, title |-> <<>>,
                       y |-> <<>>, theNote |-> <<>>]
    IN
    Let([toc \in {local_readTOC(f, pos, pnt, "IMAG")} |->
    IF Raised(toc) THEN fail(toc.exc, toc.pos) ELSE
    IF "sizeTable" \notin toc.toc.keys THEN fail(KeyError("sizeTable"), toc.pos) ELSE
    Let([loc_IMAG_TTOC \in {pnt + toc.toc.sizeTable} |->
    Let([ttoc \in {local_readTOC(f, toc.pos, loc_IMAG_TTOC, "TTOC")} |->
    IF Raised(ttoc) THEN fail(ttoc.exc, ttoc.pos) ELSE
    IF "sizeTable" \notin ttoc.toc.keys THEN fail(KeyError("sizeTable"), ttoc.pos) ELSE
    Let([loc_IMAG_IDEF \in {pnt + toc.toc.sizeTable + ttoc.toc.sizeTable} |->
    Let([idef \in {local_readDEF(f, ttoc.pos, loc_IMAG_IDEF, "IDEF")} |->
    IF Raised(idef) THEN fail(idef.exc, idef.pos) ELSE
    Let([idat \in {local_readTOC(f, idef.pos, -1, "IBOX")} |->
    IF Raised(idat) THEN fail(idat.exc, idat.pos) ELSE
    IF "data" \notin idat.toc.keys THEN fail(KeyError("data"), idat.pos) ELSE
    Let([h \in {local_readARDFpointer(f, idat.pos, -1)} |->
    IF Raised(h) THEN fail(h.exc, h.pos) ELSE
    Let([ck \in {local_checkType(h.typePnt, "GAMI", h.pos)} |->
    IF ck # NoExc THEN fail(ck, h.pos) ELSE
    IF "pntText" \notin ttoc.toc.keys THEN fail(KeyError("pntText"), h.pos) ELSE
    Let([texts \in {ImageTexts(f, ttoc.toc.pntText, n, 0,
                               [exc |-> NoExc, pos |-> h.pos, keys |-> {},
                                note |-> {}, noteQuick |-> <<>>,
                                noteThumb |-> <<>>])} |->
    IF Raised(texts) THEN fail(texts.exc, texts.pos) ELSE
    [exc |-> NoExc, pos |-> texts.pos,
     imag |-> [toc |-> toc.toc, ttoc |-> ttoc.toc, idef |-> idef.def,
               keys |-> texts.keys, note |-> texts.note],
     title |-> idef.def.imageTitle,
     y |-> idat.toc.data,
     theNote |-> IF texts.noteQuick # <<>> THEN noteMain \o texts.noteQuick
                 ELSE IF texts.noteThumb # <<>> THEN noteMain \o texts.noteThumb
                 ELSE noteMain]
    ])])])])])])])])])

\* The loop of extractImages over the image pointers.
\* st = [exc, pos, imag, imageList, y, bound, theNote].
RECURSIVE ImagesLoop(_, _, _, _, _)
ImagesLoop(f, pntImag, noteMain, n, st) ==
    IF n >= Len(pntImag) THEN st
    ELSE Let([im \in {ExtractImage(f, st.pos, pntImag[n + 1], n, noteMain)} |->
             IF Raised(im) THEN [st EXCEPT !.exc = im.exc, !.pos = im.pos]
             ELSE ImagesLoop(f, pntImag, noteMain, n + 1,
                             [st EXCEPT !.pos = im.pos,
                                        !.imag = Append(@, im.imag),
                                        !.imageList = Append(@, im.title),
                                        !.y = Append(@, im.y),
                                        !.bound = @ \cup {"theNote"},
                                        !.theNote = im.theNote])])

\* extractImages(fid, F, noteMain): [exc, pos, imag, imageList, y, Notes].
\* The final D["Notes"] = parseNotes(theNote) reads a local the loop assigns.
extractImages(f, pos, ftoc, noteMain) ==
    Let([st \in {ImagesLoop(f, ftoc.pntImag, noteMain, 0,
                    [exc |-> NoExc, pos |-> pos, imag |-> <<>>,
                     imageList |-> <<>>, y |-> <<>>, bound |-> {},
                     theNote |-> <<>>])} |->
    LET res(e, notes) == [exc |-> e, pos |-> st.pos, imag |-> st.imag,
                          imageList |-> st.imageList, y |-> st.y, Notes |-> notes]
    IN  IF Raised(st) THEN res(st.exc, {})
        ELSE IF "theNote" \notin st.bound THEN res(UnboundLocalError("theNote"), {})
        ELSE res(NoExc, parseNotes(st.theNote))])

\* An iteration that reads nothing and leaves the loop running.
ChannelStep_Stuck(f, st) == [done |-> FALSE] @@ st

\* Lines 71-88 of readARDF: one iteration of `while not done`, on the record
\* at the cursor.  st = [exc, pos, vchn, xdef]; the result also holds done.
ChannelStep(f, st) ==
    Let([h \in {local_readARDFpointer(f, st.pos, -1)} |->
        IF Raised(h) THEN [done |-> TRUE] @@ [st EXCEPT !.exc = h.exc, !.pos = h.pos]
        ELSE IF h.typePnt = "VCHN"
        THEN Let([textSize \in {32} |->
             Let([theChannel \in {smart_decode(BytesRead(f, h.pos, textSize))} |->
             Let([tt \in {fid_read(f, h.pos, textSize)} |->
             Let([remainingSize \in {h.sizeBytes - 16 - textSize} |->
             Let([rest \in {fid_read(f, tt.pos, remainingSize)} |->
                 IF Raised(rest)
                 THEN [done |-> TRUE]
                      @@ [st EXCEPT !.exc = rest.exc, !.pos = rest.pos,
                                    !.vchn = Append(@, theChannel)]
                 ELSE [done |-> FALSE]
                      @@ [st EXCEPT !.pos = rest.pos,
                                    !.vchn = Append(@, theChannel)]])])])])])
        ELSE IF h.typePnt = "XDEF"
        THEN Let([sk \in {fid_read(f, h.pos, 4)} |->
             Let([sizeTable \in {read_convert_I(f, sk.pos)} |->
             Let([text \in {smart_decode(BytesRead(f, sizeTable.pos, sizeTable.v))} |->
             Let([tt \in {fid_read(f, sizeTable.pos, sizeTable.v)} |->
             Let([rest \in {fid_read(f, tt.pos, h.sizeBytes - 16 - 8 - sizeTable.v)} |->
                 [done |-> TRUE]
                 @@ (IF Raised(sizeTable)
                     THEN [st EXCEPT !.exc = sizeTable.exc, !.pos = sizeTable.pos]
                     ELSE IF Raised(rest)
                     THEN [st EXCEPT !.exc = rest.exc, !.pos = rest.pos]
                     ELSE [st EXCEPT !.pos = rest.pos,
                                     !.xdef = [sizeTable |-> sizeTable.v,
                                               text |-> text]])])])])])])
        ELSE [done |-> TRUE]
             @@ [st EXCEPT !.exc = UnknownRecordType(h.typePnt), !.pos = h.pos]])

\* Lines 69-88 of readARDF: the VCHN records up to the XDEF record.
RECURSIVE ChannelLoop(_, _)
ChannelLoop(f, st) ==
    Let([s \in {ChannelStep(f, st)} |->
        IF s.done THEN s ELSE ChannelLoop(f, s)])

\* The flags readARDF derives from the VSET of row r (lines 104-112).
ScanDownOf(vset, r) == IF vset.line # r THEN 1 ELSE 0

TraceOf(vset) == IF vset.point = 0 THEN 1 ELSE 0

\* Lines 97-112 of readARDF: the first VSET of every row with a pointer.
\* st = [exc, pos, line, keys, scanDown, trace].
RECURSIVE LinesLoop(_, _, _, _, _)
LinesLoop(f, idx, lines, r, st) ==
    IF r >= lines THEN st
    ELSE IF "linPointer" \notin idx.keys THEN [st EXCEPT !.exc = KeyError("linPointer")]
    ELSE IF r >= Len(idx.linPointer) THEN [st EXCEPT !.exc = IndexError]
    ELSE Let([loc \in {idx.linPointer[r + 1]} |->
         IF loc = 0 THEN LinesLoop(f, idx, lines, r + 1, st) ELSE
         Let([v \in {local_readVSET(f, st.pos, loc)} |->
         IF Raised(v) THEN [st EXCEPT !.exc = v.exc, !.pos = v.pos] ELSE
         LinesLoop(f, idx, lines, r + 1,
                   [st EXCEPT !.pos = v.pos,
                              !.line = Append(@, <<r + 1, v.vset>>),
                              !.keys = {"scanDown", "trace"},
                              !.scanDown = ScanDownOf(v.vset, r),
                              !.trace = TraceOf(v.vset)])])])

\* The 0-based indices of the zero pointers, in order (line 115).
IdxZero(linPointer) ==
    LET at == SelectSeq([i \in 1..Len(linPointer) |-> i], LAMBDA i : linPointer[i] = 0)
    IN  [k \in 1..Len(at) |-> at[k] - 1]

\* Lines 114-124 of readARDF.  zs = [bound, idxZero, incMin, incMax] are the
\* locals before the try block.  A missing linPointer raises inside the try
\* block before anything is assigned; otherwise idxZero, incMin and incMax
\* are assigned, and the scanDown branch raises (KeyError when no row has a
\* pointer, TypeError on `int - list` when scanDown is 1) before it assigns
\* anything; the bare except swallows all of these.
CropLocals(idx, zs) ==
    IF "linPointer" \notin idx.keys THEN zs
    ELSE [bound |-> TRUE, idxZero |-> IdxZero(idx.linPointer),
          incMin |-> 1, incMax |-> 0]

\* Python's lst[a:b] = [] on a list.
SliceIndex(i, n) == IF i < 0 THEN Max(i + n, 0) ELSE Min(i, n)

DelSlice(lst, a, b) ==
    LET lo == SliceIndex(a, Len(lst))
        hi == SliceIndex(b, Len(lst))
    IN  IF lo >= hi THEN lst
        ELSE SubSeq(lst, 1, lo) \o SubSeq(lst, hi + 1, Len(lst))

SeqMin(s) == CHOOSE m \in Range(s) : \A x \in Range(s) : m <= x

SeqMax(s) == CHOOSE m \in Range(s) : \A x \in Range(s) : m >= x

\* Lines 125-129 of readARDF: the rows removed from every image.
CropRows(y, zs) ==
    [q \in 1..Len(y) |->
        DelSlice(y[q], SeqMin(zs.idxZero) - zs.incMin, SeqMax(zs.idxZero) + zs.incMax)]

\* Lines 56-129 of readARDF: volume n (0-based).
\* st = [exc, pos, volm, channelList, Dkeys, y, zs].
ReadVolume(f, pnt, st) ==
    LET fail(e, p) == [st EXCEPT !.exc = e, !.pos = p]
    IN
    Let([toc \in {local_readTOC(f, st.pos, pnt, "VOLM")} |->
    IF Raised(toc) THEN fail(toc.exc, toc.pos) ELSE
    IF "sizeTable" \notin toc.toc.keys THEN fail(KeyError("sizeTable"), toc.pos) ELSE
    Let([loc_VOLM_TTOC \in {pnt + toc.toc.sizeTable} |->
    Let([ttoc \in {local_readTOC(f, toc.pos, loc_VOLM_TTOC, "TTOC")} |->
    IF Raised(ttoc) THEN fail(ttoc.exc, ttoc.pos) ELSE
    IF "sizeTable" \notin ttoc.toc.keys THEN fail(KeyError("sizeTable"), ttoc.pos) ELSE
    Let([loc_VDEF_IMAG \in {pnt + toc.toc.sizeTable + ttoc.toc.sizeTable} |->
    Let([vdef \in {local_readDEF(f, ttoc.pos, loc_VDEF_IMAG, "VDEF")} |->
    IF Raised(vdef) THEN fail(vdef.exc, vdef.pos) ELSE
    Let([chn \in {ChannelLoop(f, [exc |-> NoExc, pos |-> vdef.pos, vchn |-> <<>>,
                                  xdef |-> [sizeTable |-> 0, text |-> <<>>]])} |->
    IF Raised(chn) THEN fail(chn.exc, chn.pos) ELSE
    Let([idx \in {local_readTOC(f, chn.pos, -1, "VTOC")} |->
    IF Raised(idx) THEN fail(idx.exc, idx.pos) ELSE
    Let([h \in {local_readARDFpointer(f, idx.pos, -1)} |->
    IF Raised(h) THEN fail(h.exc, h.pos) ELSE
    Let([ck \in {local_checkType(h.typePnt, "MLOV", h.pos)} |->
    IF ck # NoExc THEN fail(ck, h.pos) ELSE
    Let([ln \in {LinesLoop(f, idx.toc, vdef.def.lines, 0,
                           [exc |-> NoExc, pos |-> h.pos, line |-> <<>>,
                            keys |-> {}, scanDown |-> 0, trace |-> 0])} |->
    IF Raised(ln) THEN fail(ln.exc, ln.pos) ELSE
    Let([zs \in {CropLocals(idx.toc, st.zs)} |->
    IF ~zs.bound THEN fail(UnboundLocalError("idxZero"), ln.pos) ELSE
    IF Len(zs.idxZero) > 0 /\ "y" \notin st.Dkeys THEN fail(KeyError("y"), ln.pos) ELSE
    [st EXCEPT !.pos = ln.pos,
               !.volm = Append(@, [toc |-> toc.toc, ttoc |-> ttoc.toc,
                                   vdef |-> vdef.def, vchn |-> chn.vchn,
                                   xdef |-> chn.xdef, idx |-> idx.toc,
                                   line |-> ln.line, keys |-> ln.keys,
                                   scanDown |-> ln.scanDown, trace |-> ln.trace]),
               !.channelList = @ \o chn.vchn,
               !.zs = zs,
               !.y = IF Len(zs.idxZero) > 0 THEN CropRows(@, zs) ELSE @]
    ])])])])])])])])])])])

RECURSIVE VolumesLoop(_, _, _, _)
VolumesLoop(f, pntVolm, n, st) ==
    IF n >= Len(pntVolm) \/ Raised(st) THEN st
    ELSE VolumesLoop(f, pntVolm, n + 1, ReadVolume(f, pntVolm[n + 1], st))

\* The dictionary D of readARDF and its FileStructure before any read.
EmptyD ==
    [keys |-> {}, Notes |-> {}, imageList |-> <<>>, y |-> <<>>,
     channelList |-> <<>>,
     FileStructure |-> [keys |-> {}, ftoc |-> EmptyTOC, ttoc |-> EmptyTOC,
                        numbNotes |-> 0, numbImag |-> 0, numbVolm |-> 0,
                        imag |-> <<>>, volm |-> <<>>]]

\* Whether fid.close() (line 134) is reached: only when nothing was raised.
ReadARDFCloses(exc) == exc = NoExc

\* readARDF(FN): [exc, closed, D].
readARDF(f) ==
    LET fail(e) == [exc |-> e, closed |-> ReadARDFCloses(e), D |-> EmptyD]
    IN
    Let([h \in {local_readARDFpointer(f, 0, 0)} |->
    IF Raised(h) THEN fail(h.exc) ELSE
    Let([ck \in {local_checkType(h.typePnt, "ARDF", h.pos)} |->
    IF ck # NoExc THEN fail(ck) ELSE
    Let([ftoc \in {local_readTOC(f, h.pos, -1, "FTOC")} |->
    IF Raised(ftoc) THEN fail(ftoc.exc) ELSE
    IF "sizeTable" \notin ftoc.toc.keys THEN fail(KeyError("sizeTable")) ELSE
    Let([loc_TTOC \in {ftoc.toc.sizeTable + 16} |->
    Let([ttoc \in {local_readTOC(f, ftoc.pos, loc_TTOC, "TTOC")} |->
    IF Raised(ttoc) THEN fail(ttoc.exc) ELSE
    IF "pntText" \notin ttoc.toc.keys THEN fail(KeyError("pntText")) ELSE
    Let([numbNotes \in {Len(ttoc.toc.pntText)} |->
    Let([noteMain \in {IF numbNotes > 0
                       THEN local_readTEXT(f, ttoc.pos, ttoc.toc.pntText[1])
                       ELSE [exc |-> NoExc, pos |-> ttoc.pos, txt |-> <<>>]} |->
    IF Raised(noteMain) THEN fail(noteMain.exc) ELSE
    Let([im \in {IF numbNotes > 0
                 THEN extractImages(f, noteMain.pos, ftoc.toc, noteMain.txt)
                 ELSE [exc |-> NoExc, pos |-> ttoc.pos, imag |-> <<>>,
                       imageList |-> <<>>, y |-> <<>>, Notes |-> {}]} |->
    IF Raised(im) THEN fail(im.exc) ELSE
    Let([Dkeys \in {IF numbNotes > 0 THEN {"Notes", "imageList", "y"} ELSE {}} |->
    Let([vs \in {VolumesLoop(f, ftoc.toc.pntVolm, 0,
                             [exc |-> NoExc, pos |-> im.pos, volm |-> <<>>,
                              channelList |-> <<>>, Dkeys |-> Dkeys, y |-> im.y,
                              zs |-> [bound |-> FALSE, idxZero |-> <<>>,
                                      incMin |-> 0, incMax |-> 0]])} |->
    IF Raised(vs) THEN fail(vs.exc) ELSE
    [exc |-> NoExc, closed |-> ReadARDFCloses(NoExc),
     D |-> [keys |-> Dkeys \cup {"channelList", "endNote", "FileStructure"},
            Notes |-> im.Notes, imageList |-> im.imageList, y |-> vs.y,
            channelList |-> vs.channelList,
            FileStructure |->
               [keys |-> {"ftoc", "ttoc", "numbVolm"}
                         \cup (IF numbNotes > 0 THEN {"numbImag"} ELSE {}),
                ftoc |-> ftoc.toc, ttoc |-> ttoc.toc,
                numbNotes |-> numbNotes,
                numbImag |-> Len(im.imag),
                numbVolm |-> Len(ftoc.toc.pntVolm),
                imag |-> im.imag, volm |-> vs.volm]]]
    ])])])])])])])])])])

\* ------------------------------------------------------------ getARDFdata
\* local_readVNAM(fid, address): [exc, pos, vnam].
local_readVNAM(f, pos, address) ==
    Let([sk \in {IF address # -1 THEN fid_seek(pos, -1)
         ELSE [exc |-> NoExc, pos |-> pos]} |->
    Let([h \in {local_readARDFpointer(f, sk.pos, -1)} |->
    Let([force \in {read_convert_I(f, h.pos)} |->
    Let([line \in {read_convert_I(f, force.pos)} |->
    Let([point \in {read_convert_I(f, line.pos)} |->
    Let([sizeText \in {read_convert_I(f, point.pos)} |->
    Let([name \in {smart_decode(BytesRead(f, sizeText.pos, sizeText.v))} |->
    Let([tt \in {fid_read(f, sizeText.pos, sizeText.v)} |->
    Let([remainingSize \in {h.sizeBytes - 16 - sizeText.v - 16} |->
    Let([rest \in {fid_read(f, tt.pos, remainingSize)} |->
    LET ck == local_checkType(h.typePnt, "VNAM", h.pos)
        none == [force |-> 0, line |-> 0, point |-> 0, sizeText |-> 0, name |-> <<>>]
    IN  IF Raised(sk) THEN [exc |-> sk.exc, pos |-> pos, vnam |-> none]
        ELSE IF Raised(h) THEN [exc |-> h.exc, pos |-> h.pos, vnam |-> none]
        ELSE IF ck # NoExc THEN [exc |-> ck, pos |-> h.pos, vnam |-> none]
        ELSE IF Raised(sizeText)
             THEN [exc |-> StructError, pos |-> sizeText.pos, vnam |-> none]
        ELSE IF Raised(rest) THEN [exc |-> rest.exc, pos |-> rest.pos, vnam |-> none]
        ELSE [exc |-> NoExc, pos |-> rest.pos,
              vnam |-> [force |-> force.v, line |-> line.v, point |-> point.v,
                        sizeText |-> sizeText.v, name |-> name]]])])])])])])])])])])

\* The 4-byte integer fields local_readVDAT reads before the reserved bytes
\* (line 504).
VDATKeys == <<"force", "line", "point", "sizeData", "forceType", "pnt0", "pnt1", "pnt2">>

\* local_readVDAT(fid, address): [exc, pos, vdat].
local_readVDAT(f, pos, address) ==
    Let([h \in {local_readARDFpointer(f, pos, address)} |->
    Let([n \in {Len(VDATKeys)} |->
    Let([after \in {h.pos + 4 * n} |->
    Let([sk \in {fid_read(f, after, 8)} |->
    LET ck == local_checkType(h.typePnt, "VDAT", h.pos)
        field(k) == WordAt(f, h.pos + 4 * (k - 1))
        key(name) == CHOOSE k \in 1..n : VDATKeys[k] = name
        sizeData == field(key("sizeData"))
        none == [k \in Range(VDATKeys) |-> 0] @@ [data |-> <<>>]
    IN  IF Raised(h) THEN [exc |-> h.exc, pos |-> h.pos, vdat |-> none]
        ELSE IF ck # NoExc THEN [exc |-> ck, pos |-> h.pos, vdat |-> none]
        ELSE IF after > FLen(f) THEN [exc |-> StructError, pos |-> FLen(f), vdat |-> none]
        ELSE IF sk.pos + 4 * sizeData > FLen(f)
             THEN [exc |-> StructError, pos |-> FLen(f), vdat |-> none]
        ELSE [exc |-> NoExc, pos |-> sk.pos + 4 * sizeData,
              vdat |-> [k \in Range(VDATKeys) |-> field(key(k))]
                       @@ [data |-> BytesRead(f, sk.pos, 4 * sizeData)]]])])])])

\* local_readXDAT without the rewind: a VSET met in place of the XDAT is left
\* behind the cursor.
local_readXDAT_NoRewind(f, pos, address) ==
    Let([h \in {local_readARDFpointer(f, pos, address)} |->
        IF Raised(h) THEN [exc |-> h.exc, pos |-> h.pos]
        ELSE IF h.typePnt = "XDAT"
             THEN [exc |-> NoExc, pos |-> h.pos + (h.sizeBytes - 16)]
        ELSE IF h.typePnt = "VSET" THEN [exc |-> NoExc, pos |-> h.pos]
        ELSE [exc |-> MalformedTag(h.typePnt, "XDAT or VSET", h.pos), pos |-> h.pos]])

\* local_readXDAT(fid, address): [exc, pos].
local_readXDAT(f, pos, address) ==
    Let([sk \in {IF address # -1 THEN fid_seek(pos, -1)
         ELSE [exc |-> NoExc, pos |-> pos]} |->
    Let([h \in {local_readARDFpointer(f, sk.pos, -1)} |->
        IF Raised(sk) THEN [exc |-> sk.exc, pos |-> pos]
        ELSE IF Raised(h) THEN [exc |-> h.exc, pos |-> h.pos]
        ELSE IF h.typePnt = "XDAT"
             THEN fid_seek(h.pos, IF h.pos + (h.sizeBytes - 16) < 0 THEN -1
                                  ELSE h.pos + (h.sizeBytes - 16))
        ELSE IF h.typePnt = "VSET" THEN fid_seek(h.pos, h.pos - 16)
        ELSE [exc |-> MalformedTag(h.typePnt, "XDAT or VSET", h.pos), pos |-> h.pos]])])

\* A getARDFdata that reads volm1 whatever the trace argument.
GetVolm_First(FS, trace) == 1

\* The volume getARDFdata reads (lines 386-391): 1 or 2, and 0 when F holds
\* no trace flag to compare with (a KeyError).
GetVolm(FS, trace) ==
    IF FS.numbVolm > 1
    THEN IF "trace" \notin FS.volm[1].keys THEN 0
         ELSE IF trace = FS.volm[1].trace THEN 1 ELSE 2
    ELSE 1

\* The VTOC row of logical line getLine (lines 396-399).
AdjLine(scanDown, numbLines, getLine) ==
    IF scanDown = 1 THEN numbLines - getLine - 1 ELSE getLine

\* The number of VDAT records read per point (line 401).
NumbChannels(FS) == Len(FS.volm[1].vchn)

GKeys ==
    <<"numbForce", "numbLine", "numbPoint", "locPrev", "locNext", "name", "y",
      "pnt0", "pnt1", "pnt2">>

EmptyG == [k \in Range(GKeys) |-> <<>>] @@ [keys |-> {}]

\* Lines 428-430: the VDAT records of one point.
\* st = [exc, pos, theData, vdat, vdatBound, nread].
RECURSIVE VDATLoop(_, _, _)
VDATLoop(f, n, st) ==
    IF n = 0 THEN st
    ELSE Let([d \in {local_readVDAT(f, st.pos, -1)} |->
             IF Raised(d)
             THEN [st EXCEPT !.exc = d.exc, !.pos = d.pos, !.nread = @ + 1]
             ELSE VDATLoop(f, n - 1,
                           [st EXCEPT !.pos = d.pos, !.nread = @ + 1,
                                      !.theData = Append(@, d.vdat.data),
                                      !.vdat = d.vdat, !.vdatBound = TRUE])])

\* Lines 439-452: every list of G is reversed when its first point number
\* is not 0.  The test is made after each point is appended.
ReverseIfBackward(G) ==
    IF G.numbPoint[1] # 0
    THEN [k \in DOMAIN G |-> IF k = "keys" THEN G.keys ELSE Reverse(G[k])]
    ELSE G

\* Lines 415-452: the loop over the points of the line.
\* st = [exc, pos, G, vdat, vdatBound, nread].
RECURSIVE PointsLoop(_, _, _, _)
PointsLoop(f, numbChannels, n, st) ==
    IF n = 0 THEN st ELSE
    Let([vset \in {local_readVSET(f, st.pos, -1)} |->
    IF Raised(vset)
    THEN [st EXCEPT !.exc = vset.exc, !.pos = vset.pos, !.nread = @ + 1] ELSE
    Let([vnam \in {local_readVNAM(f, vset.pos, -1)} |->
    IF Raised(vnam)
    THEN [st EXCEPT !.exc = vnam.exc, !.pos = vnam.pos, !.nread = @ + 2] ELSE
    Let([vd \in {VDATLoop(f, numbChannels,
                          [exc |-> NoExc, pos |-> vnam.pos, theData |-> <<>>,
                           vdat |-> st.vdat, vdatBound |-> st.vdatBound,
                           nread |-> st.nread + 2])} |->
    IF Raised(vd)
    THEN [st EXCEPT !.exc = vd.exc, !.pos = vd.pos, !.nread = vd.nread] ELSE
    Let([xdat \in {local_readXDAT(f, vd.pos, -1)} |->
    IF Raised(xdat)
    THEN [st EXCEPT !.exc = xdat.exc, !.pos = xdat.pos, !.nread = vd.nread + 1] ELSE
    IF ~vd.vdatBound
    THEN [st EXCEPT !.exc = UnboundLocalError("vdat"), !.pos = xdat.pos,
                    !.nread = vd.nread + 1] ELSE
    Let([G \in {[st.G EXCEPT !.numbForce = Append(@, vset.vset.force),
                             !.numbLine = Append(@, vset.vset.line),
                             !.numbPoint = Append(@, vset.vset.point),
                             !.locPrev = Append(@, vset.vset.prev),
                             !.locNext = Append(@, vset.vset.next),
                             !.name = Append(@, vnam.vnam.name),
                             !.y = Append(@, vd.theData),
                             !.pnt0 = Append(@, vd.vdat.pnt0),
                             !.pnt1 = Append(@, vd.vdat.pnt1),
                             !.pnt2 = Append(@, vd.vdat.pnt2)]} |->
    PointsLoop(f, numbChannels, n - 1,
               [st EXCEPT !.pos = xdat.pos, !.nread = vd.nread + 1,
                          !.vdat = vd.vdat, !.vdatBound = TRUE,
                          !.G = ReverseIfBackward(G)])
    ])])])])])

\* A getARDFdata that pops the pointer of the line it read off the VTOC it
\* was given.
FileStructAfterGet_Popped(FS) ==
    IF Len(FS.volm) = 0 THEN FS
    ELSE [FS EXCEPT !.volm[1].idx.linPointer =
                      IF Len(@) = 0 THEN @ ELSE SubSeq(@, 2, Len(@))]

\* The FileStructure after a call of getARDFdata that was given it: the code
\* only reads F (lines 381-403).
FileStructAfterGet(FS) == FS

\* A test that takes no line for empty.
IsEmptyLine_Never(locLine) == FALSE

\* Line 407: a line pointer of 0 marks a line without data.
IsEmptyLine(locLine) == locLine = 0

\* getARDFdata(FN, getLine, trace, fileStruct) with a FileStructure given:
\* [exc, closed, G, nread], nread the number of records read from the file.
getARDFdata(f, getLine, trace, FS) ==
    LET fail(e, k) == [exc |-> e, closed |-> FALSE, G |-> EmptyG, nread |-> k]
    IN
    Let([getVolm \in {GetVolm(FS, trace)} |->
    IF getVolm = 0 THEN fail(KeyError("trace"), 0) ELSE
    IF getVolm > Len(FS.volm) THEN fail(KeyError("volm"), 0) ELSE
    Let([vol \in {FS.volm[getVolm]} |->
    Let([numbPoints \in {vol.vdef.points} |->
    Let([numbLines \in {vol.vdef.lines} |->
    IF "scanDown" \notin vol.keys THEN fail(KeyError("scanDown"), 0) ELSE
    Let([adjLine \in {AdjLine(vol.scanDown, numbLines, getLine)} |->
    Let([numbChannels \in {NumbChannels(FS)} |->
    IF "linPointer" \notin vol.idx.keys THEN fail(KeyError("linPointer"), 0) ELSE
    Let([n \in {Len(vol.idx.linPointer)} |->
    IF adjLine >= n \/ adjLine < -n THEN fail(IndexError, 0) ELSE
    Let([locLine \in {vol.idx.linPointer[IF adjLine < 0 THEN adjLine + n + 1
                                         ELSE adjLine + 1]} |->
    IF IsEmptyLine(locLine)
    THEN [exc |-> NoExc, closed |-> TRUE, G |-> EmptyG, nread |-> 0] ELSE
    Let([sk \in {fid_seek(0, locLine)} |->
    IF Raised(sk) THEN fail(sk.exc, 0) ELSE
    Let([lp \in {PointsLoop(f, numbChannels, numbPoints,
                            [exc |-> NoExc, pos |-> sk.pos,
                             G |-> [EmptyG EXCEPT !.keys = Range(GKeys)],
                             vdat |-> [k \in Range(VDATKeys) |-> 0]
                                      @@ [data |-> <<>>],
                             vdatBound |-> FALSE, nread |-> 0])} |->
    IF Raised(lp) THEN fail(lp.exc, lp.nread) ELSE
    [exc |-> NoExc, closed |-> TRUE, G |-> lp.G, nread |-> lp.nread]
    ])])])])])])])])])])

\* ------------------------------------------------------------ extract_ardf
\* np.nan, as an entry of a padded waveform (samples are not negative).
NaN == -1

\* list(elem) + [np.nan] * (w - len(elem))
PadTo(elem, w) == elem \o [i \in 1..(w - Len(elem)) |-> NaN]

\* Lines 553-567: one getARDFdata call per value of `point` in range(points),
\* passed as the line to read.  st = [exc, rows, max_size, leaked].
RECURSIVE ReadLinesLoop(_, _, _, _, _, _, _)
ReadLinesLoop(f, FS, idx, tracetype, points, point, st) ==
    IF point >= points THEN st ELSE
    Let([g \in {getARDFdata(f, point, tracetype, FS)} |->
    IF Raised(g)
    THEN [st EXCEPT !.exc = g.exc,
                    !.leaked = st.leaked + (IF g.closed THEN 0 ELSE 1)] ELSE
    IF "y" \notin g.G.keys THEN [st EXCEPT !.exc = KeyError("y")] ELSE
    Let([y \in {g.G.y} |->
    IF Len(y) = 0 THEN [st EXCEPT !.exc = IndexError] ELSE
    Let([result_line \in {[p \in 1..Len(y) |-> y[p][idx + 1]]} |->
    Let([length \in {SeqMax([p \in 1..Len(result_line) |->
                               Len(result_line[p])])} |->
    Let([max_size \in {IF length > st.max_size THEN length ELSE st.max_size} |->
    ReadLinesLoop(f, FS, idx, tracetype, points, point + 1,
                  [st EXCEPT !.rows = Append(@, [p \in 1..Len(result_line) |->
                                                  PadTo(result_line[p], max_size)]),
                             !.max_size = max_size])
    ])])])])])

\* An extract_ardf without the second padding pass.
RePad_Skipped(rows, lines, points, max_size) == [exc |-> NoExc, rows |-> rows]

\* Lines 569-574: every waveform of the rows 0..lines-1 is padded again, to
\* the final max_size.  [exc, rows].
RePad(rows, lines, points, max_size) ==
    IF lines > 0 /\ points > 0
       /\ (Len(rows) < lines \/ \E l \in 1..lines : Len(rows[l]) < points)
    THEN [exc |-> IndexError, rows |-> rows]
    ELSE [exc |-> NoExc,
          rows |-> [l \in 1..Len(rows) |->
                      [p \in 1..Len(rows[l]) |->
                         IF l <= lines /\ p <= points
                         THEN PadTo(rows[l][p], max_size)
                         ELSE rows[l][p]]]]

\* Whether np.array(rows) is a rectangular 3-D block.
Rectangular(rows) ==
    /\ \A l \in 1..Len(rows) : Len(rows[l]) = Len(rows[1])
    /\ \A l \in 1..Len(rows) : \A p \in 1..Len(rows[l]) :
          Len(rows[l][p]) = Len(rows[1][1])

\* np.array(rows).shape
ShapeOf(rows) ==
    IF Len(rows) = 0 THEN <<0>>
    ELSE IF Len(rows[1]) = 0 THEN <<Len(rows), 0>>
    ELSE <<Len(rows), Len(rows[1]), Len(rows[1][1])>>

\* Lines 550-582: the two directions of channel idx.
\* st = [exc, max_size, leaked, retrace, trace, retraceShape, traceShape].
RECURSIVE DirectionsLoop(_, _, _, _, _, _, _)
DirectionsLoop(f, FS, idx, lines, points, tracetype, st) ==
    IF tracetype > 1 \/ Raised(st) THEN st ELSE
    Let([rd \in {ReadLinesLoop(f, FS, idx, tracetype, points, 0,
                               [exc |-> NoExc, rows |-> <<>>,
                                max_size |-> st.max_size,
                                leaked |-> st.leaked])} |->
    IF Raised(rd) THEN [st EXCEPT !.exc = rd.exc, !.leaked = rd.leaked] ELSE
    Let([rp \in {RePad(rd.rows, lines, points, rd.max_size)} |->
    IF Raised(rp) THEN [st EXCEPT !.exc = rp.exc] ELSE
    IF ~Rectangular(rp.rows)
    THEN [st EXCEPT !.exc = Exc("ValueError", "inhomogeneous shape", "", "", -1)] ELSE
    Let([key \in {IF tracetype = 0 THEN "retrace" ELSE "trace"} |->
    DirectionsLoop(f, FS, idx, lines, points, tracetype + 1,
                   [st EXCEPT !.max_size = rd.max_size,
                              ![key] = rp.rows,
                              ![key \o "Shape"] = ShapeOf(rp.rows)])
    ])])])

\* Lines 544-582: the loop over the channels of volm1.
\* st = [exc, leaked, data, attributes].
RECURSIVE ChannelsLoop(_, _, _, _, _, _)
ChannelsLoop(f, FS, lines, points, idx, st) ==
    IF idx >= Len(FS.volm[1].vchn) \/ Raised(st) THEN st
    ELSE Let([channelName \in {FS.volm[1].vchn[idx + 1]} |->
         Let([ch \in {DirectionsLoop(f, FS, idx, lines, points, 0,
                             [exc |-> NoExc, max_size |-> 0, leaked |-> st.leaked,
                              retrace |-> <<>>, trace |-> <<>>,
                              retraceShape |-> <<>>, traceShape |-> <<>>])} |->
             IF Raised(ch) THEN [st EXCEPT !.exc = ch.exc, !.leaked = ch.leaked]
             ELSE ChannelsLoop(f, FS, lines, points, idx + 1,
                    [st EXCEPT
                       !.data = (channelName :>
                                   [kind |-> "volume", image |-> <<>>,
                                    retrace |-> ch.retrace, trace |-> ch.trace]) @@ @,
                       !.attributes = (channelName :>
                                   [keys |-> {"name", "retrace", "trace"},
                                    shape |-> <<>>,
                                    retraceShape |-> ch.retraceShape,
                                    traceShape |-> ch.traceShape]) @@ @])])])

\* An extract_ardf that returns no image channel.
ImageChannels_None(D, idx, st) == st

\* Lines 533-540: the image channels.  st = [data, attributes].
RECURSIVE ImageChannels(_, _, _)
ImageChannels(D, idx, st) ==
    IF idx >= Len(D.imageList) THEN st
    ELSE LET channelName == D.imageList[idx + 1]
         IN  ImageChannels(D, idx + 1,
                [data |-> (channelName :>
                             [kind |-> "image", image |-> D.y[idx + 1],
                              retrace |-> <<>>, trace |-> <<>>]) @@ st.data,
                 attributes |-> (channelName :>
                             [keys |-> {"name", "shape", "unit"},
                              shape |-> <<Len(D.y[idx + 1])>>,
                              retraceShape |-> <<>>, traceShape |-> <<>>])
                             @@ st.attributes])

\* extract_ardf(filename): [exc, leaked, data, metadata, attributes]; leaked
\* counts the file handles the calls it made left open.
extract_ardf(f) ==
    LET fail(e, k) == [exc |-> e, leaked |-> k, data |-> <<>>, metadata |-> {},
                       attributes |-> <<>>]
    IN
    Let([r \in {readARDF(f)} |->
    IF Raised(r) THEN fail(r.exc, IF r.closed THEN 0 ELSE 1) ELSE
    Let([D \in {r.D} |->
    Let([FS \in {D.FileStructure} |->
    IF "Notes" \notin D.keys THEN fail(KeyError("Notes"), 0) ELSE
    Let([im \in {ImageChannels(D, 0, [data |-> <<>>, attributes |-> <<>>])} |->
    IF Len(FS.volm) = 0 THEN fail(KeyError("volm1"), 0) ELSE
    Let([lines \in {FS.volm[1].vdef.lines} |->
    Let([points \in {FS.volm[1].vdef.points} |->
    Let([ch \in {ChannelsLoop(f, FS, lines, points, 0,
                              [exc |-> NoExc, leaked |-> 0, data |-> im.data,
                               attributes |-> im.attributes])} |->
    IF Raised(ch) THEN fail(ch.exc, ch.leaked) ELSE
    [exc |-> NoExc, leaked |-> ch.leaked, data |-> ch.data,
     metadata |-> D.Notes, attributes |-> ch.attributes]
    ])])])])])])])

\* ------------------------------------------------------------ records on disk
\* The layouts the readers above and below expect, used to write the files
\* the model decodes.
Bytes(ws) == 4 * Len(ws)

\* A 16-byte header: crc, size, tag, misc.
Hdr(size, tag) == <<0, size, TagWord(tag), 0>>

\* An 8-byte little-endian integer.
Q(v) == <<v, 0>>

\* An entry of a pointer table; size 0 declares an entry with no payload.
PtrEntry(e) == IF e.size = 0 THEN Hdr(0, e.tag) ELSE Hdr(e.size, e.tag) \o Q(e.ptr)

\* A table of contents: header, sizeTable, numbEntry, sizeEntry, entries.
TOCRecord(tag, numbEntry, sizeEntry, entries) ==
    LET body == Flatten(entries)
        size == 32 + Bytes(body)
    IN  Hdr(size, tag) \o Q(size) \o <<numbEntry, sizeEntry>> \o body

\* A 32-byte title or channel name: the name, NUL-padded.
Title32(w) == <<w>> \o Zeros(7)

\* An IDEF or VDEF record with `slack` words after the title.
DefRecord(tag, points, lines, title, slack) ==
    LET skip == IF tag = "IDEF" THEN 96 ELSE 144
    IN  Hdr(16 + 8 + skip + 32 + 4 * slack, tag) \o <<points, lines>>
        \o Zeros(skip \div 4) \o Title32(title) \o Zeros(slack)

TextRecord(text) == Hdr(24 + Bytes(text), "TEXT") \o <<0, Bytes(text)>> \o text

TextEntry(idx, ptr) == Hdr(32, "TOFF") \o Q(idx) \o Q(ptr)

IdatEntry(samples) == Hdr(16 + Bytes(samples), "IDAT") \o samples

VoffEntry(pntCount, linCount, ptr) ==
    Hdr(40, "VOFF") \o <<pntCount, linCount>> \o Q(0) \o Q(ptr)

VchnRecord(name) == Hdr(48, "VCHN") \o Title32(name)

XdefRecord(text) == Hdr(24 + Bytes(text), "XDEF") \o <<0, Bytes(text)>> \o text

VsetRecord(force, line, point) ==
    Hdr(48, "VSET") \o <<force, line, point, 0>> \o Q(0) \o Q(0)

VnamRecord(force, line, point, name) ==
    Hdr(32 + Bytes(name), "VNAM") \o <<force, line, point, Bytes(name)>> \o name

VdatRecord(force, line, point, pnt, data) ==
    Hdr(56 + Bytes(data), "VDAT")
    \o <<force, line, point, Len(data), 0, pnt[1], pnt[2], pnt[3]>>
    \o <<0, 0>> \o data

XdatRecord == Hdr(16, "XDAT")

\* ------------------------------------------------------------ the files decoded
\* A file is written from a description fx:
\*   hasNote            the top-level TTOC holds one text pointer (else none)
\*   nImag, imgLines, imgPoints   the image branches and their grid
\*   nVolm, lines, points, nChan  the volume branches, their grid and channels
\*   scanDown           the rows of the VTOC are stored last line first
\*   reversed           the points of volume 1 are stored last point first
\*                      (volume 2 is swept the other way)
\*   zero               the rows whose VTOC pointer is 0
\*   base, dl, dp, dv   the waveform length of a point (WaveLen)
MaxImag == 2

MaxImgLines == 2

MaxImgPoints == 2

MaxLines == 3

MaxPoints == 3

MaxChan == 2

MaxWave == 2

\* sizeData of the point (line, point) of volume v.
WaveLen(x, v, line, point) ==
    1 + ((x.base + x.dl * line + x.dp * point + x.dv * (v - 1)) % MaxWave)

\* The k-th sample of channel c at (line, point) of volume v: all different.
Sample(v, line, point, c, k) ==
    k + MaxWave * ((c - 1) + MaxChan * (point + MaxPoints * (line + MaxLines * (v - 1))))

Waveform(x, v, line, point, c) ==
    [k \in 1..WaveLen(x, v, line, point) |-> Sample(v, line, point, c, k)]

\* The sample at (row, col) of image n: all different.
ImgSample(x, n, row, col) == 1 + col + x.imgPoints * (row + x.imgLines * (n - 1))

ImgRow(x, n, row) == [j \in 1..x.imgPoints |-> ImgSample(x, n, row, j - 1)]

ImgTitle(n) == 10 + n

ChanName(c) == 20 + c

PointName(point) == 30 + point

\* The main note: three lines, "1:1", a line without colon, "2:3".
NoteMain == <<11, 5, 23>>

\* One image branch: IMAG table, TTOC, IDEF, IBOX with its IDAT rows, GAMI.
ImageBlock(x, n) ==
    TOCRecord("IMAG", 0, 24, <<>>)
    \o TOCRecord("TTOC", 0, 32, <<>>)
    \o DefRecord("IDEF", x.imgPoints, x.imgLines, ImgTitle(n), 0)
    \o TOCRecord("IBOX", x.imgLines, 16 + 4 * x.imgPoints,
                 [r \in 1..x.imgLines |-> IdatEntry(ImgRow(x, n, r - 1))])
    \o Hdr(16, "GAMI")

\* The line number stored at row r (0-based) of a volume.
LineOfRow(x, r) == IF x.scanDown THEN x.lines - 1 - r ELSE r

\* Whether the points of volume v are stored last point first.
ReversedIn(x, v) == IF v = 1 THEN x.reversed ELSE ~x.reversed

\* The point number stored at position i (0-based) of a line of volume v.
PointAt(x, v, i) == IF ReversedIn(x, v) THEN x.points - 1 - i ELSE i

\* One point: VSET, VNAM, one VDAT per channel, XDAT.
PointRecords(x, v, line, point) ==
    VsetRecord(0, line, point)
    \o VnamRecord(0, line, point, <<PointName(point)>>)
    \o Flatten([c \in 1..x.nChan |->
                  VdatRecord(0, line, point, <<line, point, c>>,
                             Waveform(x, v, line, point, c))])
    \o XdatRecord

\* The records of the line stored at row r; nothing for a zero pointer.
LineRecords(x, v, r) ==
    IF r \in x.zero THEN <<>>
    ELSE Flatten([i \in 1..x.points |->
                    PointRecords(x, v, LineOfRow(x, r), PointAt(x, v, i - 1))])

\* The bytes of a volume branch before its first line.
VolumeHead(x) == 32 + 32 + 200 + 48 * x.nChan + 28 + (32 + 40 * x.lines) + 16

\* The VTOC pointer of row r of the volume written at `at`.
LinePointer(x, v, at, r) ==
    IF r \in x.zero THEN 0
    ELSE at + VolumeHead(x)
         + Bytes(Flatten([q \in 1..r |-> LineRecords(x, v, q - 1)]))

\* One volume branch, written at byte offset `at`.
VolumeBlock(x, v, at) ==
    TOCRecord("VOLM", 0, 24, <<>>)
    \o TOCRecord("TTOC", 0, 32, <<>>)
    \o DefRecord("VDEF", x.points, x.lines, 40 + v, 0)
    \o Flatten([c \in 1..x.nChan |-> VchnRecord(ChanName(c))])
    \o XdefRecord(<<7>>)
    \o TOCRecord("VTOC", x.lines, 40,
                 [r \in 1..x.lines |->
                    VoffEntry(x.points, r - 1, LinePointer(x, v, at, r - 1))])
    \o Hdr(16, "MLOV")
    \o Flatten([r \in 1..x.lines |-> LineRecords(x, v, r - 1)])

\* The fixture as volume v is written from it: a fixture that names the
\* number of channels of its second volume (nChan2) has that many VCHN
\* records and VDAT records per point there; every other volume has nChan.
VolumeFx(x, v) ==
    IF v = 2 /\ "nChan2" \in DOMAIN x THEN [x EXCEPT !.nChan = x.nChan2] ELSE x

\* The whole file.
ARDFFile(x) ==
    LET nNote == IF x.hasNote THEN 1 ELSE 0
        ftocSize == 32 + 24 * (x.nImag + x.nVolm)
        ttocAt == 16 + ftocSize
        textAt == ttocAt + 32 + 32 * nNote
        text == IF x.hasNote THEN TextRecord(NoteMain) ELSE <<>>
        imagAt == textAt + Bytes(text)
        imagSize == Bytes(ImageBlock(x, 1))
        volm1At == imagAt + x.nImag * imagSize
        volm1 == IF x.nVolm >= 1 THEN VolumeBlock(VolumeFx(x, 1), 1, volm1At) ELSE <<>>
        volm2At == volm1At + Bytes(volm1)
        volm2 == IF x.nVolm >= 2 THEN VolumeBlock(VolumeFx(x, 2), 2, volm2At) ELSE <<>>
        volmAt == <<volm1At, volm2At>>
    IN  Hdr(16, "ARDF")
        \o TOCRecord("FTOC", x.nImag + x.nVolm, 24,
                     [i \in 1..(x.nImag + x.nVolm) |->
                        IF i <= x.nImag
                        THEN PtrEntry([tag |-> "IMAG", size |-> 24,
                                       ptr |-> imagAt + (i - 1) * imagSize])
                        ELSE PtrEntry([tag |-> "VOLM", size |-> 24,
                                       ptr |-> volmAt[i - x.nImag]])])
        \o TOCRecord("TTOC", nNote, 32,
                     [i \in 1..nNote |-> TextEntry(0, textAt)])
        \o text
        \o Flatten([n \in 1..x.nImag |-> ImageBlock(x, n)])
        \o volm1 \o volm2

\* ------------------------------------------------------------ SpecTOC
\* local_readTOC applied to every pointer table of up to MaxEntries entries.
PtrEntries(n) ==
    {[i \in 1..n |-> [tag |-> ts[i], size |-> zs[i], ptr |-> 8 * i]] :
        ts \in [1..n -> PointerSubTags], zs \in [1..n -> {0, 24}]}

InitTOC ==
    /\ \E type \in {"FTOC", "IMAG", "VOLM"}, n \in 0..MaxEntries :
         \E es \in PtrEntries(n) :
            /\ fx = [kind |-> "toc", type |-> type, entries |-> es]
            /\ file = Hdr(16, "ARDF")
                      \o TOCRecord(type, n, 24, [i \in 1..n |-> PtrEntry(es[i])])
    /\ F = [exc |-> NoExc]
    /\ call = [op |-> "none"]
    /\ ret = [exc |-> NoExc]
    /\ openHandles = 0
    /\ hist = <<>>

\* One call of local_readTOC(fid, 16, fx.type) on an open handle.
ReadTOC ==
    /\ call.op = "none"
    /\ fx.kind = "toc"
    /\ call' = [op |-> "local_readTOC", address |-> 16, type |-> fx.type]
    /\ ret' = local_readTOC(file, 0, 16, fx.type)
    /\ UNCHANGED <<file, fx, F, openHandles, hist>>

NextTOC == ReadTOC

SpecTOC == InitTOC /\ [][NextTOC]_vars

\* The pointers of the entries of es whose tag is t, in file order.
PointersOf(es, t) ==
    LET sel == SelectSeq(es, LAMBDA e : e.tag = t)
    IN  [i \in 1..Len(sel) |-> sel[i].ptr]

\* C7: for a pointer table (FTOC, IMAG, VOLM) whose numbEntry entries are
\* pointer entries (a header of non-zero size and an 8-byte pointer) with
\* sub-tags in {IMAG, VOLM, NEXT, NSET, THMB}, local_readTOC returns without
\* error, the five buckets hold numbEntry pointers in all, and each bucket
\* holds exactly the pointers of the entries with its sub-tag, in file order.
C7_BucketsMatchSubTags ==
    (call.op = "local_readTOC" /\ \A i \in DOMAIN fx.entries : fx.entries[i].size # 0)
    => /\ ret.exc = NoExc
       /\ ret.toc.numbEntry = Len(fx.entries)
       /\ Len(ret.toc.pntImag) + Len(ret.toc.pntVolm) + Len(ret.toc.pntNext)
            + Len(ret.toc.pntNset) + Len(ret.toc.pntThmb) = ret.toc.numbEntry
       /\ ret.toc.pntImag = PointersOf(fx.entries, "IMAG")
       /\ ret.toc.pntVolm = PointersOf(fx.entries, "VOLM")
       /\ ret.toc.pntNext = PointersOf(fx.entries, "NEXT")
       /\ ret.toc.pntNset = PointersOf(fx.entries, "NSET")
       /\ ret.toc.pntThmb = PointersOf(fx.entries, "THMB")

\* A table of MaxEntries pointer entries, with at least three different
\* sub-tags, was read.
C7_Witness ==
    /\ call.op = "local_readTOC"
    /\ Len(fx.entries) = MaxEntries
    /\ \A i \in DOMAIN fx.entries : fx.entries[i].size # 0
    /\ Cardinality({fx.entries[i].tag : i \in DOMAIN fx.entries}) >= 3
    /\ ret.exc = NoExc

\* ------------------------------------------------------------ fixtures
\* The waveform-length patterns: uniform, growing or shrinking along the
\* lines, along the points, and between the two volumes.
WavePatterns ==
    {[base |-> b, dl |-> w[1], dp |-> w[2], dv |-> w[3]] :
        b \in 0..(MaxWave - 1),
        w \in {<<0, 0, 0>>, <<1, 0, 0>>, <<0, 1, 0>>, <<0, 0, 1>>}}

\* The description every other one is a variation of: a note, one 1x1 image,
\* one volume of one line, one point and one channel.
BaseFx ==
    [kind |-> "ardf", hasNote |-> TRUE, nImag |-> 1, imgLines |-> 1,
     imgPoints |-> 1, nVolm |-> 1, lines |-> 1, points |-> 1, nChan |-> 1,
     scanDown |-> FALSE, reversed |-> FALSE, zero |-> {},
     base |-> 0, dl |-> 0, dp |-> 0, dv |-> 0]

\* Files that differ in their image branches and have no volume.
ImageFixtures ==
    {[BaseFx EXCEPT !.hasNote = hn, !.nImag = ni, !.imgLines = il,
                    !.imgPoints = ip, !.nVolm = 0] :
        hn \in BOOLEAN, ni \in 0..MaxImag, il \in 1..MaxImgLines,
        ip \in 1..MaxImgPoints}

\* Files with or without a note and an image in front of a volume.
NoteFixtures ==
    {[BaseFx EXCEPT !.hasNote = hn, !.nImag = ni, !.lines = MaxLines, !.zero = z] :
        hn \in BOOLEAN, ni \in 0..1, z \in {{}, {0}}}

\* The grids of a volume: every number of lines at MaxPoints points, and
\* every number of points at MaxLines lines.
Grids ==
    {<<l, MaxPoints>> : l \in 1..MaxLines} \cup {<<MaxLines, p>> : p \in 1..MaxPoints}

\* Files that differ in the lines of their volumes: the grid, the storage
\* order of lines and points, a row without data (the first or the last),
\* one or two volumes. The waveforms grow along the points.
LineFixtures ==
    {[BaseFx EXCEPT !.lines = g[1], !.points = g[2], !.nChan = MaxChan,
                    !.scanDown = sd, !.reversed = rv, !.dp = 1] :
        g \in Grids, sd \in BOOLEAN, rv \in BOOLEAN}
    \cup
    {[BaseFx EXCEPT !.lines = g[1], !.points = g[2], !.nChan = MaxChan,
                    !.scanDown = sd, !.zero = z, !.dp = 1] :
        g \in Grids, sd \in BOOLEAN, z \in {{0}, {MaxLines - 1}}}
    \cup
    {[BaseFx EXCEPT !.nVolm = 2, !.lines = MaxLines, !.points = MaxPoints,
                    !.nChan = MaxChan, !.scanDown = sd, !.reversed = rv, !.dp = 1] :
        sd \in BOOLEAN, rv \in BOOLEAN}

\* Files that differ in their waveform lengths, for every grid, stored
\* forward or backward (lines and points both), with one or two volumes.
WaveFixtures ==
    {[BaseFx EXCEPT !.nVolm = nv, !.lines = l, !.points = p, !.nChan = MaxChan,
                    !.scanDown = bk, !.reversed = bk,
                    !.base = w.base, !.dl = w.dl, !.dp = w.dp, !.dv = w.dv] :
        nv \in 1..2, l \in 1..MaxLines, p \in 1..MaxPoints, bk \in BOOLEAN,
        w \in WavePatterns}

\* Files with a row without data, for every grid.
ZeroFixtures ==
    {[BaseFx EXCEPT !.lines = l, !.points = p, !.nChan = MaxChan,
                    !.scanDown = sd, !.zero = {0}] :
        l \in 1..MaxLines, p \in 1..MaxPoints, sd \in BOOLEAN}

\* Files that differ in their images, in front of a volume of one point.
ImageDataFixtures ==
    {[BaseFx EXCEPT !.nImag = ni, !.imgLines = il, !.imgPoints = ip] :
        ni \in 1..MaxImag, il \in 1..MaxImgLines, ip \in 1..MaxImgPoints}

\* ------------------------------------------------------------ Spec
\* A caller that parses a file with readARDF and then reads lines of it with
\* getARDFdata, passing the FileStructure it holds. call.n counts the calls
\* of getARDFdata.
MaxCalls == 3

InitWith(fixtures) ==
    /\ fx \in fixtures
    /\ file = ARDFFile(fx)
    /\ F = [exc |-> NoExc, parsed |-> FALSE]
    /\ call = [op |-> "none", n |-> 0]
    /\ ret = [exc |-> NoExc]
    /\ openHandles = 0
    /\ hist = <<>>

Init == InitWith(ImageFixtures \cup NoteFixtures \cup LineFixtures)

\* D = readARDF(FN); the caller keeps D["FileStructure"].
ReadARDF ==
    /\ call.op = "none"
    /\ ret' = readARDF(file)
    /\ F' = IF Raised(ret') \/ "FileStructure" \notin ret'.D.keys THEN F
            ELSE [exc |-> NoExc, parsed |-> TRUE, FS |-> ret'.D.FileStructure]
    /\ openHandles' = openHandles + (IF ret'.closed THEN 0 ELSE 1)
    /\ call' = [op |-> "readARDF", n |-> 0]
    /\ UNCHANGED <<file, fx, hist>>

\* G = getARDFdata(FN, getLine, trace, F); hist keeps the arguments and the
\* result of the first such call.
GetARDFdata(getLine, trace) ==
    /\ call.n < MaxCalls
    /\ F.parsed
    /\ ret' = getARDFdata(file, getLine, trace, F.FS)
    /\ openHandles' = openHandles + (IF ret'.closed THEN 0 ELSE 1)
    /\ hist' = IF hist = <<>>
               THEN <<[getLine |-> getLine, trace |-> trace,
                       exc |-> ret'.exc, G |-> ret'.G]>>
               ELSE hist
    /\ F' = [F EXCEPT !.FS = FileStructAfterGet(F.FS)]
    /\ call' = [op |-> "getARDFdata", n |-> call.n + 1, getLine |-> getLine,
                trace |-> trace]
    /\ UNCHANGED <<file, fx>>

Next ==
    \/ ReadARDF
    \/ \E getLine \in 0..(MaxLines - 1), trace \in 0..1 : GetARDFdata(getLine, trace)

Spec == Init /\ [][Next]_vars

\* ------------------------------------------------------------ SpecExtract
\* extract_ardf applied to a file.
InitExtract == InitWith(WaveFixtures \cup ZeroFixtures \cup ImageDataFixtures)

ExtractArdf ==
    /\ call.op \in {"none", "corrupt"}
    /\ ret' = extract_ardf(file)
    /\ openHandles' = openHandles + ret'.leaked
    /\ call' = [op |-> "extract_ardf", n |-> call.n + 1]
    /\ UNCHANGED <<file, fx, F, hist>>

NextExtract == ExtractArdf

SpecExtract == InitExtract /\ [][NextExtract]_vars

\* The arrays extract_ardf returned for the volume channels: channel c of the
\* file is named <<ChanName(c)>>, d is "retrace" or "trace".
Directions == {"retrace", "trace"}

\* C1: for a file whose VTOC holds no zero pointer, extract_ardf returns, and
\* for every volume channel and direction the array is rectangular, its first
\* dimension is the VDEF lines value (fx.lines) and its second dimension the
\* VDEF points value (fx.points), for every grid.
C1_ShapeIsLinesByPoints ==
    (call.op = "extract_ardf" /\ fx.zero = {})
    => /\ ret.exc = NoExc
       /\ \A c \in 1..fx.nChan : \A d \in Directions :
             LET a == ret.data[<<ChanName(c)>>][d]
             IN  /\ Rectangular(a)
                 /\ Len(a) = fx.lines
                 /\ \A l \in 1..Len(a) : Len(a[l]) = fx.points

\* row is the waveform wf, unchanged and in order, followed by NaN only.
IsPaddedWaveform(row, wf) ==
    /\ Len(row) >= Len(wf)
    /\ \A i \in 1..Len(row) : row[i] = IF i <= Len(wf) THEN wf[i] ELSE NaN

\* C2: extract_ardf returns for every square grid without zero pointer, and
\* every array it returns for a volume channel and a direction holds the
\* points of one volume: its waveform dimension W is at least the sizeData of
\* every point of that volume, every row of the array is the waveform of a
\* point, unchanged and in order, followed by exactly W - sizeData NaN, and
\* every point of the volume has its row in the array.
C2_WaveformsPadded ==
    call.op = "extract_ardf"
    => /\ (fx.lines = fx.points /\ fx.zero = {}) => ret.exc = NoExc
       /\ ret.exc = NoExc =>
            \A c \in 1..fx.nChan : \A d \in Directions :
               LET a == ret.data[<<ChanName(c)>>][d]
                   W == Len(a[1][1])
                   grid == (0..(fx.lines - 1)) \X (0..(fx.points - 1))
                   cells == {<<i, j>> \in (1..Len(a)) \X (1..Len(a[1])) : TRUE}
               IN  \E v \in 1..fx.nVolm :
                      /\ \A g \in grid : W >= WaveLen(fx, v, g[1], g[2])
                      /\ \A g \in grid : \E e \in cells :
                            IsPaddedWaveform(a[e[1]][e[2]],
                                             Waveform(fx, v, g[1], g[2], c))
                      /\ \A e \in cells :
                            /\ Len(a[e[1]][e[2]]) = W
                            /\ \E g \in grid :
                                  IsPaddedWaveform(a[e[1]][e[2]],
                                                   Waveform(fx, v, g[1], g[2], c))

\* extract_ardf returned the arrays of a file whose waveforms grow from the
\* first line to the second: an array holds a padded and an unpadded row.
C2_Witness ==
    /\ call.op = "extract_ardf"
    /\ ret.exc = NoExc
    /\ fx.dl = 1 /\ fx.base = 0 /\ fx.lines = MaxLines
    /\ \E c \in 1..fx.nChan : \E d \in Directions :
          LET a == ret.data[<<ChanName(c)>>][d]
          IN  /\ \E i \in 1..Len(a) : \E j \in 1..Len(a[i]) :
                    a[i][j][Len(a[i][j])] = NaN
              /\ \E i \in 1..Len(a) : \E j \in 1..Len(a[i]) :
                    a[i][j][Len(a[i][j])] # NaN

\* C3: every image channel extract_ardf returns is the full 2-D block of
\* its IBOX table: its shape is lines x points, it has one row per IDAT
\* entry, and each row holds all the samples of that entry in file order.
C3_ImageIsFullBlock ==
    (call.op = "extract_ardf" /\ ret.exc = NoExc)
    => \A n \in 1..fx.nImag :
          /\ <<ImgTitle(n)>> \in DOMAIN ret.data
          /\ ret.attributes[<<ImgTitle(n)>>].shape = <<fx.imgLines, fx.imgPoints>>
          /\ ret.data[<<ImgTitle(n)>>].image
                = [r \in 1..fx.imgLines |-> ImgRow(fx, n, r - 1)]

\* The point numbers of the line getARDFdata read, in the order in which
\* the file stores them.
PhysicalPoints == [i \in 1..fx.points |-> PointAt(fx, GetVolm(F.FS, call.trace), i - 1)]

\* C4: when getARDFdata returns the points of a line, its per-point lists are
\* in the physical read order if the first VSET read has point 0, and in
\* exactly the reverse of the physical read order otherwise: numbPoint, name,
\* pnt1 (the point number of the VDAT records) and y (the waveforms).
C4_LogicallyForward ==
    (call.op = "getARDFdata" /\ ret.exc = NoExc /\ ret.G.keys # {})
    => LET v == GetVolm(F.FS, call.trace)
           points == IF PhysicalPoints[1] # 0 THEN Reverse(PhysicalPoints)
                     ELSE PhysicalPoints
           line == ret.G.numbLine[1]
       IN  /\ ret.G.numbPoint = points
           /\ ret.G.pnt1 = points
           /\ ret.G.name = [i \in 1..Len(points) |-> <<PointName(points[i])>>]
           /\ ret.G.y = [i \in 1..Len(points) |->
                           [c \in 1..fx.nChan |-> Waveform(fx, v, line, points[i], c)]]

\* The VTOC pointer of the line a call of getARDFdata asks for: the row is
\* counted from the end when the volume's scanDown flag is 1, and a negative
\* row counts from the end of the list, as Python indexes it.  -1 when the
\* call resolves no pointer.
ResolvedPointer ==
    IF call.op # "getARDFdata" \/ GetVolm(F.FS, call.trace) \notin 1..Len(F.FS.volm)
    THEN -1
    ELSE LET vol == F.FS.volm[GetVolm(F.FS, call.trace)]
             ptrs == vol.idx.linPointer
             row == IF vol.scanDown = 1 THEN vol.vdef.lines - call.getLine - 1
                    ELSE call.getLine
         IN  IF "scanDown" \notin vol.keys THEN -1
             ELSE IF row \in 0..(Len(ptrs) - 1) THEN ptrs[row + 1]
             ELSE IF -row \in 1..Len(ptrs) THEN ptrs[Len(ptrs) + row + 1]
             ELSE -1

FuzzFixtures ==
    {BaseFx, [BaseFx EXCEPT !.lines = 2, !.points = 2]}

\* The values a tag field is overwritten with: every known tag, and four
\* bytes that are no tag.
FuzzWords == {TagWord(t) : t \in Range(Tags)} \cup {JunkWord}

\* The words of f that are the tag field of a header.
TagFields(f) == {i \in DOMAIN f : smart_decode_tag(f[i]) \in Range(Tags)}

InitFuzz == InitWith(FuzzFixtures)

CorruptTag(i, w) ==
    /\ call.op = "none"
    /\ i \in TagFields(file)
    /\ w # file[i]
    /\ file' = [file EXCEPT ![i] = w]
    /\ call' = [op |-> "corrupt", n |-> 0, at |-> 4 * (i - 1),
                was |-> smart_decode_tag(file[i]), tag |-> smart_decode_tag(w)]
    /\ UNCHANGED <<fx, F, ret, openHandles, hist>>

NextFuzz ==
    \/ \E i \in DOMAIN file, w \in FuzzWords : CorruptTag(i, w)
    \/ ExtractArdf

SpecFuzz == InitFuzz /\ [][NextFuzz]_vars

\* C6: no call leaves a file handle open, whether it returns or raises.
C6_HandlesClosed == openHandles = 0

\* C8: decoding a file in which one tag field was changed fails, with a
\* tag-mismatch or an unknown-record-type error.
C8_TagChangeDetected ==
    (call.op = "extract_ardf" /\ file # ARDFFile(fx))
    => /\ Raised(ret)
       /\ ret.exc.type = "ValueError"
       /\ ret.exc.msg \in {"No test here", "not recognized"}

\* ------------------------------------------------------------ SpecPar
\* Two workers read lines of one file at the same time.  The file is parsed
\* once; each worker calls getARDFdata with the FileStructure the parse gave,
\* and the calls advance record by record, in any order.  call.w holds where
\* each call stands, call.cursor the position of every file handle, ret the
\* result of each worker.
Workers == {"a", "b"}

\* A worker that reads through the handle the first worker opened.
HandleOf_Shared(w) == "a"

\* Line 379: every call opens a file handle of its own.
HandleOf(w) == w

\* Volumes of MaxLines lines of MaxPoints points, one or two of them, stored
\* in either order, with or without a row without data.
ParFixtures ==
    {[BaseFx EXCEPT !.nVolm = nv, !.lines = MaxLines, !.points = MaxPoints,
                    !.scanDown = sd, !.reversed = sd, !.zero = z, !.dp = 1] :
        nv \in 1..2, sd \in BOOLEAN, z \in {{}, {0}}}

InitPar == InitWith(ParFixtures)

\* Lines 381-410 of getARDFdata: what a call takes from F before it reads a
\* record.  [exc, empty, locLine, numbPoints, numbChannels].
GetARDFdataOpen(getLine, trace, FS) ==
    LET res(e, empty, loc, np, nc) ==
            [exc |-> e, empty |-> empty, locLine |-> loc, numbPoints |-> np,
             numbChannels |-> nc]
        fail(e) == res(e, FALSE, 0, 0, 0)
    IN
    Let([getVolm \in {GetVolm(FS, trace)} |->
    IF getVolm = 0 THEN fail(KeyError("trace")) ELSE
    IF getVolm > Len(FS.volm) THEN fail(KeyError("volm")) ELSE
    Let([vol \in {FS.volm[getVolm]} |->
    IF "scanDown" \notin vol.keys THEN fail(KeyError("scanDown")) ELSE
    Let([adjLine \in {AdjLine(vol.scanDown, vol.vdef.lines, getLine)} |->
    IF "linPointer" \notin vol.idx.keys THEN fail(KeyError("linPointer")) ELSE
    Let([n \in {Len(vol.idx.linPointer)} |->
    IF adjLine >= n \/ adjLine < -n THEN fail(IndexError) ELSE
    Let([locLine \in {vol.idx.linPointer[IF adjLine < 0 THEN adjLine + n + 1
                                         ELSE adjLine + 1]} |->
    IF IsEmptyLine(locLine) THEN res(NoExc, TRUE, 0, 0, 0) ELSE
    IF Raised(fid_seek(0, locLine)) THEN fail(fid_seek(0, locLine).exc) ELSE
    res(NoExc, FALSE, locLine, vol.vdef.points, NumbChannels(FS))
    ])])])])])

\* The locals of the loop over the points before its first iteration (lines
\* 411-413); the cursor is kept with the handle.
PointsInit ==
    [exc |-> NoExc, pos |-> 0, G |-> [EmptyG EXCEPT !.keys = Range(GKeys)],
     vdat |-> [k \in Range(VDATKeys) |-> 0] @@ [data |-> <<>>],
     vdatBound |-> FALSE, nread |-> 0]

IdleWorker ==
    [pc |-> "idle", getLine |-> 0, trace |-> 0, left |-> 0, numbChannels |-> 0,
     st |-> PointsInit]

\* Whether a step of worker w falls between two steps of another call.
Interleaves(w) == \E v \in Workers \ {w} : call.w[v].pc = "loop"

\* F = readARDF(FN)["FileStructure"], handed to both workers.
ParParse ==
    /\ call.op = "none"
    /\ \E r \in {readARDF(file)} :
          /\ ~Raised(r)
          /\ F' = [exc |-> NoExc, parsed |-> TRUE, FS |-> r.D.FileStructure]
    /\ call' = [op |-> "par", n |-> 0,
                w |-> [v \in Workers |-> IdleWorker],
                cursor |-> [h \in Workers |-> 0],
                mixed |-> FALSE]
    /\ ret' = [v \in Workers |->
                 [exc |-> NoExc, closed |-> FALSE, G |-> EmptyG, nread |-> 0]]
    /\ UNCHANGED <<file, fx, openHandles, hist>>

\* Lines 379-413: worker w calls getARDFdata(FN, getLine, trace, F).
ParOpen(w, getLine, trace) ==
    /\ call.op = "par"
    /\ call.w[w].pc = "idle"
    /\ \E o \in {GetARDFdataOpen(getLine, trace, F.FS)} :
          /\ call' = [call EXCEPT
                        !.w[w] = [pc |-> IF Raised(o) \/ o.empty THEN "done"
                                         ELSE "loop",
                                  getLine |-> getLine, trace |-> trace,
                                  left |-> o.numbPoints,
                                  numbChannels |-> o.numbChannels,
                                  st |-> PointsInit],
                        !.cursor[HandleOf(w)] =
                            IF Raised(o) \/ o.empty THEN @ ELSE o.locLine,
                        !.mixed = @ \/ Interleaves(w)]
          /\ ret' = [ret EXCEPT ![w] =
                        IF Raised(o)
                        THEN [exc |-> o.exc, closed |-> FALSE, G |-> EmptyG,
                              nread |-> 0]
                        ELSE IF o.empty
                        THEN [exc |-> NoExc, closed |-> TRUE, G |-> EmptyG,
                              nread |-> 0]
                        ELSE @]
          /\ openHandles' = openHandles + (IF o.empty THEN 0 ELSE 1)
    /\ F' = [F EXCEPT !.FS = FileStructAfterGet(F.FS)]
    /\ UNCHANGED <<file, fx, hist>>

\* Lines 415-452: worker w reads the records of one point through its handle.
ParPoint(w) ==
    /\ call.op = "par"
    /\ call.w[w].pc = "loop"
    /\ call.w[w].left > 0
    /\ \E s \in {PointsLoop(file, call.w[w].numbChannels, 1,
                            [call.w[w].st EXCEPT
                               !.pos = call.cursor[HandleOf(w)]])} :
          /\ call' = [call EXCEPT
                        !.w[w].st = s,
                        !.w[w].left = @ - 1,
                        !.w[w].pc = IF Raised(s) THEN "done" ELSE @,
                        !.cursor[HandleOf(w)] = s.pos,
                        !.mixed = @ \/ Interleaves(w)]
          /\ ret' = [ret EXCEPT ![w] =
                        IF Raised(s)
                        THEN [exc |-> s.exc, closed |-> FALSE, G |-> EmptyG,
                              nread |-> s.nread]
                        ELSE @]
    /\ UNCHANGED <<file, fx, F, openHandles, hist>>

\* Lines 454-455: fid.close(); return G.
ParClose(w) ==
    /\ call.op = "par"
    /\ call.w[w].pc = "loop"
    /\ call.w[w].left = 0
    /\ call' = [call EXCEPT !.w[w].pc = "done", !.mixed = @ \/ Interleaves(w)]
    /\ ret' = [ret EXCEPT ![w] = [exc |-> NoExc, closed |-> TRUE,
                                  G |-> call.w[w].st.G,
                                  nread |-> call.w[w].st.nread]]
    /\ openHandles' = openHandles - 1
    /\ UNCHANGED <<file, fx, F, hist>>

NextPar ==
    \/ ParParse
    \/ \E w \in Workers, getLine \in 0..(MaxLines - 1), trace \in 0..1 :
          ParOpen(w, getLine, trace)
    \/ \E w \in Workers : ParPoint(w)
    \/ \E w \in Workers : ParClose(w)

SpecPar == InitPar /\ [][NextPar]_vars

\* C11: the FileStructure the workers share stays the one readARDF returned,
\* and every call that has ended, however its steps were interleaved with
\* those of the other call, raised or returned what the same call returns
\* when it runs alone from start to end.
C11_InterleavedAsSequential ==
    call.op = "par"
    => /\ F.FS = readARDF(file).D.FileStructure
       /\ \A w \in Workers :
             call.w[w].pc = "done"
             => ret[w] = getARDFdata(file, call.w[w].getLine, call.w[w].trace, F.FS)

\* Both calls have ended, their steps were interleaved, they asked for
\* different lines and each returned the points of its line.
C11_Witness ==
    /\ call.op = "par"
    /\ call.mixed
    /\ \A w \in Workers : call.w[w].pc = "done" /\ ret[w].exc = NoExc
                          /\ Len(ret[w].G.y) > 1
    /\ call.w["a"].getLine # call.w["b"].getLine
    /\ ret["a"].G # ret["b"].G

\* ------------------------------------------------------------ attributes
\* C12: for every channel extract_ardf returns, attributes[channel] has the
\* keys 'name' and 'shape'; for every volume channel it also has the entries
\* 'trace' and 'retrace', each holding a shape.
C12_AttributesHaveNameAndShape ==
    (call.op = "extract_ardf" /\ ret.exc = NoExc)
    => \A ch \in DOMAIN ret.data :
          /\ ch \in DOMAIN ret.attributes
          /\ {"name", "shape"} \subseteq ret.attributes[ch].keys
          /\ ret.data[ch].kind = "volume"
             => /\ {"trace", "retrace"} \subseteq ret.attributes[ch].keys
                /\ ret.attributes[ch].traceShape = ShapeOf(ret.data[ch].trace)
                /\ ret.attributes[ch].retraceShape = ShapeOf(ret.data[ch].retrace)

\* ------------------------------------------------------------ SpecDecode
\* A caller that decodes a file once, with readARDF or with extract_ardf: the
\* files with and without note, image and volume, and those with every number
\* of images and channels.
DecodeFixtures ==
    {[BaseFx EXCEPT !.nImag = ni, !.nVolm = nv, !.nChan = nc] :
        ni \in 0..MaxImag, nv \in 1..2, nc \in 1..MaxChan}

InitDecode ==
    InitWith(ImageFixtures \cup NoteFixtures \cup LineFixtures \cup DecodeFixtures)

NextDecode == ReadARDF \/ ExtractArdf

SpecDecode == InitDecode /\ [][NextDecode]_vars

\* C13: the channel keys of the data extract_ardf returns are exactly the
\* titles of the images the FTOC points to, one per image pointer, and the
\* channel names of the first volume, which are the names of its VCHN
\* records in file order up to its XDEF record.
C13_ChannelKeys ==
    (call.op = "extract_ardf" /\ ret.exc = NoExc)
    => /\ DOMAIN ret.data = {<<ImgTitle(n)>> : n \in 1..fx.nImag}
                            \cup {<<ChanName(c)>> : c \in 1..fx.nChan}
       /\ readARDF(file).D.FileStructure.volm[1].vchn
             = [c \in 1..fx.nChan |-> <<ChanName(c)>>]

\* extract_ardf returned the channels of a file with several images and
\* several channels in its volume.
C13_Witness ==
    /\ call.op = "extract_ardf"
    /\ ret.exc = NoExc
    /\ fx.nImag = MaxImag /\ fx.nChan = MaxChan
    /\ Cardinality(DOMAIN ret.data) = MaxImag + MaxChan

\* C14: a well-formed file with a main note, at least one image and no
\* volume pointer in its FTOC is decoded by extract_ardf without error, and
\* the data returned has the image channels and no other channel.
C14_ImagesWithoutVolume ==
    (call.op = "extract_ardf" /\ fx.hasNote /\ fx.nImag >= 1 /\ fx.nVolm = 0)
    => /\ ret.exc = NoExc
       /\ DOMAIN ret.data = {<<ImgTitle(n)>> : n \in 1..fx.nImag}

\* C15: for a well-formed file whose top-level TTOC holds no text pointer and
\* whose FTOC points to at least one image, readARDF completes without error
\* and reads every image branch: imageList and y hold one entry per image
\* pointer of the FTOC.
C15_ImagesReadWithoutNote ==
    (call.op = "readARDF" /\ ~fx.hasNote /\ fx.nImag >= 1)
    => /\ ret.exc = NoExc
       /\ {"imageList", "y"} \subseteq ret.D.keys
       /\ Len(ret.D.imageList) = fx.nImag
       /\ Len(ret.D.y) = fx.nImag

\* C16: after readARDF the scanDown and trace flags of every volume are
\* those of the first row whose VTOC pointer is not zero: scanDown is 1 iff
\* the line number of that row's VSET differs from the row index, and trace
\* is 1 iff the point field of that VSET is 0.
C16_FlagsFromFirstLine ==
    (call.op = "readARDF" /\ ret.exc = NoExc /\ F.parsed)
    => \A v \in 1..Len(F.FS.volm) :
          LET vol == F.FS.volm[v]
              r == vol.line[1][1] - 1
              vset == vol.line[1][2]
          IN  Len(vol.line) > 0
              => /\ r \notin fx.zero /\ \A q \in 0..(r - 1) : q \in fx.zero
                 /\ vol.scanDown = ScanDownOf(vset, r)
                 /\ vol.trace = TraceOf(vset)

\* ------------------------------------------------------------ SpecTexts
\* readARDF applied to files whose images carry text records: every image
\* has the same number of text pointers in its TTOC, up to MaxTexts.
MaxTexts == 5

\* Text record r (1-based) of an image: the one line "key:value" with a key
\* of its own.
NoteText(r, v) == <<10 * (r + 2) + v>>

\* One image branch written at `at`, of one sample, followed by the text
\* records its TTOC points to.
ImageTextBlock(x, n, at) ==
    LET k == Len(x.texts)
        idef == DefRecord("IDEF", 1, 1, ImgTitle(n), 0)
        ibox == TOCRecord("IBOX", 1, 20, <<IdatEntry(<<n>>)>>)
        textSize == Bytes(TextRecord(NoteText(1, 1)))
        textsAt == at + 32 + (32 + 32 * k) + Bytes(idef) + Bytes(ibox) + 16
    IN  TOCRecord("IMAG", 0, 24, <<>>)
        \o TOCRecord("TTOC", k, 32,
                     [r \in 1..k |-> TextEntry(r - 1, textsAt + textSize * (r - 1))])
        \o idef \o ibox \o Hdr(16, "GAMI")
        \o Flatten([r \in 1..k |-> TextRecord(NoteText(r, x.texts[r]))])

\* A file with a main note and x.nImag such images, no volume.
TextsFile(x) ==
    LET ftocSize == 32 + 24 * x.nImag
        textAt == 16 + ftocSize + 32 + 32
        imagAt == textAt + Bytes(TextRecord(NoteMain))
        imagSize == Bytes(ImageTextBlock(x, 1, 0))
    IN  Hdr(16, "ARDF")
        \o TOCRecord("FTOC", x.nImag, 24,
                     [i \in 1..x.nImag |->
                        PtrEntry([tag |-> "IMAG", size |-> 24,
                                  ptr |-> imagAt + (i - 1) * imagSize])])
        \o TOCRecord("TTOC", 1, 32, <<TextEntry(0, textAt)>>)
        \o TextRecord(NoteMain)
        \o Flatten([n \in 1..x.nImag |->
                      ImageTextBlock(x, n, imagAt + (n - 1) * imagSize)])

InitTexts ==
    /\ \E ni \in 1..MaxImag, k \in 0..MaxTexts :
         \E t \in [1..k -> 1..2] :
            fx = [kind |-> "texts", nImag |-> ni, texts |-> t]
    /\ file = TextsFile(fx)
    /\ F = [exc |-> NoExc, parsed |-> FALSE]
    /\ call = [op |-> "none", n |-> 0]
    /\ ret = [exc |-> NoExc]
    /\ openHandles = 0
    /\ hist = <<>>

NextTexts == ReadARDF

SpecTexts == InitTexts /\ [][NextTexts]_vars

\* C17: for a file whose images each hold k text pointers in their TTOC,
\* 1 <= k <= 4, readARDF (through extractImages) reads all the text records
\* without error; the third is the image's own note, and the file's notes are
\* the main note followed by the fourth text (the quick note) or else by the
\* second (the thumbnail note).
C17_ImageTextsRead ==
    (call.op = "readARDF" /\ Len(fx.texts) \in 1..4)
    => /\ ret.exc = NoExc
       /\ Len(fx.texts) >= 3
          => \A n \in 1..fx.nImag :
                F.FS.imag[n].note = parseNotes(NoteText(3, fx.texts[3]))
       /\ ret.D.Notes
             = parseNotes(NoteMain
                          \o (IF Len(fx.texts) >= 4 THEN NoteText(4, fx.texts[4])
                              ELSE IF Len(fx.texts) >= 2 THEN NoteText(2, fx.texts[2])
                              ELSE <<>>))

\* ------------------------------------------------------------ unknown tags
\* C18: when the entry loop of local_readTOC or the channel-list loop of
\* readARDF meets a tag outside the known set, the error raised carries the
\* offending tag and a byte offset, and the file holds that tag in the header
\* read at that offset.
C18_UnknownTagHasOffset ==
    (call.op = "extract_ardf" /\ ret.exc.msg = "not recognized")
    => /\ ret.exc.location >= 0
       /\ \E off \in {ret.exc.location, ret.exc.location + 8} :
             /\ off < FLen(file)
             /\ smart_decode_tag(WordAt(file, off)) = ret.exc.found

\* ------------------------------------------------------------ SpecTrunc
\* readARDF applied to a file that lost its end: the files of SpecTexts
\* whose images hold at most one text record, which readARDF reads up to
\* their last byte, cut after any number of 4-byte words.
InitTrunc == InitTexts /\ Len(fx.texts) <= 1

\* The file keeps its first n words.
Truncate(n) ==
    /\ call.op = "none"
    /\ "cut" \notin DOMAIN call
    /\ n < Len(file)
    /\ file' = SubSeq(file, 1, n)
    /\ call' = [op |-> "none", n |-> 0, cut |-> 4 * n]
    /\ UNCHANGED <<fx, F, ret, openHandles, hist>>

NextTrunc ==
    \/ \E n \in 0..Len(file) : Truncate(n)
    \/ ReadARDF

SpecTrunc == InitTrunc /\ [][NextTrunc]_vars

\* C19: readARDF on a file that ends before the last byte the decoder asks
\* for raises an error, wherever the file ends.
C19_TruncationIsFatal ==
    (call.op = "readARDF" /\ Len(file) < Len(TextsFile(fx)))
    => Raised(ret)

\* ------------------------------------------------------------ SpecLoops
\* The two loops of readARDF whose end depends on the file, one iteration
\* per step: the entry loop of local_readTOC on a table that declares
\* numbEntry entries and is followed by up to MaxRecs of them, and the
\* channel-list loop on up to MaxRecs records.  call.st holds the locals of
\* the loop, call.n the iterations of the entry loop.
MaxRecs == 3

RecsOf(tags) == UNION {[1..n -> tags] : n \in 0..MaxRecs}

LoopFixtures ==
    {[kind |-> "entries", numbEntry |-> d, recs |-> r] :
        d \in 0..MaxRecs, r \in RecsOf({"IMAG", "TTOC", "GAMI"})}
    \cup
    {[kind |-> "channels", numbEntry |-> 0, recs |-> r] :
        r \in RecsOf({"VCHN", "XDEF", "GAMI"})}

\* The table at byte 16 of a file, or the records of a channel list.
LoopFile(x) ==
    IF x.kind = "entries"
    THEN Hdr(16, "ARDF")
         \o TOCRecord("FTOC", x.numbEntry, 24,
                      [i \in 1..Len(x.recs) |->
                         PtrEntry([tag |-> x.recs[i], size |-> 24, ptr |-> 8 * i])])
    ELSE Flatten([i \in 1..Len(x.recs) |->
                    IF x.recs[i] = "VCHN" THEN VchnRecord(ChanName(i))
                    ELSE IF x.recs[i] = "XDEF" THEN XdefRecord(<<7>>)
                    ELSE Hdr(16, x.recs[i])])

InitLoops ==
    /\ fx \in LoopFixtures
    /\ file = LoopFile(fx)
    /\ F = [exc |-> NoExc, parsed |-> FALSE]
    /\ call = [op |-> "none", n |-> 0]
    /\ ret = [exc |-> NoExc]
    /\ openHandles = 0
    /\ hist = <<>>

\* Lines 270-305 of local_readTOC(fid, 16, "FTOC"): the header of the table
\* and the locals of the loop.
TOCOpen ==
    /\ call.op = "none"
    /\ fx.kind = "entries"
    /\ \E h \in {local_readARDFpointer(file, 0, 16)} :
          call' = [op |-> "local_readTOC", n |-> 0, lastType |-> h.typePnt,
                   st |-> TOCLoopInit(h.pos + 16,
                             [EmptyTOC EXCEPT
                                !.keys = {"sizeTable", "numbEntry", "sizeEntry"}
                                         \cup TOCKeys("FTOC"),
                                !.sizeTable = read_convert_Q(file, h.pos).v,
                                !.numbEntry = read_convert_I(file, h.pos + 8).v,
                                !.sizeEntry = read_convert_I(file, h.pos + 12).v],
                             "FTOC")]
    /\ UNCHANGED <<file, fx, F, ret, openHandles, hist>>

\* Lines 307-351: one iteration of the entry loop.
TOCIter ==
    /\ call.op = "local_readTOC"
    /\ ~Raised(call.st)
    /\ call.st.done = 0 /\ call.st.numbRead <= call.st.toc.numbEntry
    /\ call' = [call EXCEPT
                  !.n = @ + 1,
                  !.st = [TOCLoop(file, call.lastType,
                                  [call.st EXCEPT !.toc.numbEntry = call.st.numbRead])
                            EXCEPT !.toc.numbEntry = call.st.toc.numbEntry]]
    /\ UNCHANGED <<file, fx, F, ret, openHandles, hist>>

\* Lines 66-69 of readARDF: the locals of the channel-list loop.
ChanOpen ==
    /\ call.op = "none"
    /\ fx.kind = "channels"
    /\ call' = [op |-> "channels", n |-> 0,
                st |-> [done |-> FALSE, exc |-> NoExc, pos |-> 0, vchn |-> <<>>,
                        xdef |-> [sizeTable |-> 0, text |-> <<>>]]]
    /\ UNCHANGED <<file, fx, F, ret, openHandles, hist>>

\* Lines 70-88: one iteration of `while not done`.
ChanIter ==
    /\ call.op = "channels"
    /\ ~call.st.done
    /\ call' = [call EXCEPT !.st = ChannelStep(file, call.st)]
    /\ UNCHANGED <<file, fx, F, ret, openHandles, hist>>

\* The loop is left: its condition is false, or an exception was raised.
LoopReturn ==
    /\ \/ /\ call.op = "local_readTOC"
          /\ \/ Raised(call.st)
             \/ ~(call.st.done = 0 /\ call.st.numbRead <= call.st.toc.numbEntry)
       \/ /\ call.op = "channels"
          /\ call.st.done
    /\ ret' = [exc |-> call.st.exc, pos |-> call.st.pos]
    /\ call' = [call EXCEPT !.op = "returned"]
    /\ UNCHANGED <<file, fx, F, openHandles, hist>>

NextLoops == TOCOpen \/ TOCIter \/ ChanOpen \/ ChanIter \/ LoopReturn

\* The decoder is sequential: a step that can be taken is taken.
SpecLoops == InitLoops /\ [][NextLoops]_vars /\ WF_vars(NextLoops)

\* The index of the first record of the channel list that is no VCHN record,
\* one past the list when there is none.
FirstNotVCHN ==
    CHOOSE k \in 1..(Len(fx.recs) + 1) :
       /\ \A i \in 1..(k - 1) : fx.recs[i] = "VCHN"
       /\ k <= Len(fx.recs) => fx.recs[k] # "VCHN"

\* C20: both loops end on every file.  The entry loop of local_readTOC runs
\* at most numbEntry iterations; the channel-list loop ends at the first XDEF
\* record (success), at the first record with another tag (unknown record
\* type) or at the end of the file (short read), with the names of the VCHN
\* records before it.
C20_LoopsTerminate ==
    /\ [](fx.kind = "entries" => call.n <= fx.numbEntry)
    /\ []((fx.kind = "channels" /\ call.op = "returned")
          => /\ call.st.vchn = [i \in 1..(FirstNotVCHN - 1) |-> <<ChanName(i)>>]
             /\ ret.exc = IF FirstNotVCHN > Len(fx.recs) THEN StructError
                          ELSE IF fx.recs[FirstNotVCHN] = "XDEF" THEN NoExc
                          ELSE UnknownRecordType(fx.recs[FirstNotVCHN]))
    /\ <>(call.op = "returned")

\* The channel-list loop returned at the end of a file of MaxRecs VCHN
\* records.
C20_Witness ==
    /\ call.op = "returned"
    /\ fx.kind = "channels"
    /\ Len(call.st.vchn) = MaxRecs
    /\ ret.exc = StructError

\* ------------------------------------------------------------ SpecHy
\* HyFile (hyFile.py): a caller that opens the hdf5 file at one path with the
\* mode fx.mode, creates datasets in it, closes it and opens it again.
\* `file` is the file on disk, F the HyFile object the caller holds.
HyModes == {"r", "r+", "w", "w-", "a"}

RootGroups == {"datasets", "metadata", "process"}

HyKeys == {"", "datasets/a", "datasets/b"}

HyData == {1, 2}

\* No file at the path; a new, empty hdf5 file.
NoDisk == [exists |-> FALSE, root |-> {}, data |-> <<>>]

EmptyDisk == [exists |-> TRUE, root |-> {}, data |-> <<>>]

\* h5py.File(path, mode), as the docstring of HyFile.__init__ gives the
\* modes: [exc, disk, writable].
h5py_File(disk, mode) ==
    CASE mode = "r" ->
           IF disk.exists THEN [exc |-> NoExc, disk |-> disk, writable |-> FALSE]
           ELSE [exc |-> Exc("FileNotFoundError", "r", "", "", -1), disk |-> disk,
                 writable |-> FALSE]
      [] mode = "r+" ->
           IF disk.exists THEN [exc |-> NoExc, disk |-> disk, writable |-> TRUE]
           ELSE [exc |-> Exc("FileNotFoundError", "r+", "", "", -1), disk |-> disk,
                 writable |-> FALSE]
      [] mode = "w" -> [exc |-> NoExc, disk |-> EmptyDisk, writable |-> TRUE]
      [] mode = "w-" ->
           IF disk.exists
           THEN [exc |-> Exc("FileExistsError", "w-", "", "", -1), disk |-> disk,
                 writable |-> FALSE]
           ELSE [exc |-> NoExc, disk |-> EmptyDisk, writable |-> TRUE]
      [] OTHER ->
           [exc |-> NoExc, disk |-> IF disk.exists THEN disk ELSE EmptyDisk,
            writable |-> TRUE]

\* HyFile.__init__(path, mode), lines 153-176: [exc, disk, writable].
HyFile_init(disk, mode) ==
    IF mode \notin HyModes
    THEN [exc |-> Exc("TypeError", "not a valid file permission", "", "", -1),
          disk |-> disk, writable |-> FALSE]
    ELSE IF disk.exists THEN h5py_File(disk, mode)
    ELSE Let([a \in {h5py_File(disk, "a")} |->
         Let([made \in {[a.disk EXCEPT !.root = @ \cup RootGroups]} |->
         IF mode # "a" THEN h5py_File(made, mode)
         ELSE [exc |-> NoExc, disk |-> made, writable |-> TRUE]])])

\* HyFile._create_dataset((key, data), overwrite=...), lines 487-501, on an
\* open file: [exc, disk].  A file opened read-only refuses the change.
create_dataset(disk, writable, key, data, overwrite) ==
    IF key = "" THEN {[exc |-> NoExc, disk |-> disk]}
    ELSE IF key \in DOMAIN disk.data /\ ~overwrite
    THEN {[exc |-> Exc("KeyError", "Key already exist", "", "", -1), disk |-> disk]}
    ELSE IF ~writable
    THEN {[exc |-> Exc(t, "no write intent on file", "", "", -1), disk |-> disk] :
             t \in {"KeyError", "ValueError"}}
    ELSE {[exc |-> NoExc,
           disk |-> [disk EXCEPT
                       !.root = @ \cup {"datasets"},
                       !.data = (key :> data)
                                @@ [k \in DOMAIN disk.data \ {key} |-> disk.data[k]]]]}

InitHy ==
    /\ fx \in {[kind |-> "hdf5", mode |-> m] : m \in HyModes \cup {"x"}}
    /\ file = NoDisk
    /\ F = [open |-> FALSE, writable |-> FALSE]
    /\ call = [op |-> "none", n |-> 0]
    /\ ret = [exc |-> NoExc]
    /\ openHandles = 0
    /\ hist = <<>>

\* f = HyFile(path, fx.mode); ret.root is f[""], the keys of the root.
HyOpen ==
    /\ ~F.open
    /\ \E r \in {HyFile_init(file, fx.mode)} :
          /\ file' = r.disk
          /\ F' = [open |-> ~Raised(r), writable |-> r.writable]
          /\ ret' = [exc |-> r.exc, root |-> r.disk.root]
          /\ call' = [op |-> "HyFile", n |-> 0, existed |-> file.exists]
    /\ UNCHANGED <<fx, openHandles, hist>>

\* f.__exit__: the file is closed.
HyExit ==
    /\ F.open
    /\ F' = [open |-> FALSE, writable |-> FALSE]
    /\ call' = [op |-> "exit", n |-> 0]
    /\ ret' = [exc |-> NoExc]
    /\ UNCHANGED <<file, fx, openHandles, hist>>

\* f._create_dataset((key, data), overwrite=overwrite); hist keeps the file
\* as it was before the call.
CreateDataset(key, data, overwrite) ==
    /\ F.open
    /\ \E r \in create_dataset(file, F.writable, key, data, overwrite) :
          /\ file' = r.disk
          /\ ret' = [exc |-> r.exc]
    /\ hist' = <<file>>
    /\ call' = [op |-> "_create_dataset", n |-> 0, key |-> key, data |-> data,
                overwrite |-> overwrite]
    /\ UNCHANGED <<fx, F, openHandles>>

NextHy ==
    \/ HyOpen
    \/ HyExit
    \/ \E key \in HyKeys, data \in HyData, overwrite \in BOOLEAN :
          CreateDataset(key, data, overwrite)

SpecHy == InitHy /\ [][NextHy]_vars

\* C21: a HyFile opened with an accepted mode on a path where no file exists,
\* and the same path opened again after it was closed, has exactly the root
\* groups datasets, metadata and process (as long as no dataset call changed
\* the file in between).
C21_RootGroups ==
    (call.op = "HyFile" /\ fx.mode \in HyModes /\ hist = <<>>)
    => /\ ret.exc = NoExc
       /\ ret.root = RootGroups

\* C22: _create_dataset on a key that holds a dataset, in a file open for
\* writing: with overwrite the key then holds the new data and the other
\* keys are unchanged; without overwrite the call raises ValueError and the
\* file is unchanged.
C22_OverwriteOrRefuse ==
    (call.op = "_create_dataset" /\ F.writable /\ call.key \in DOMAIN hist[1].data)
    => IF call.overwrite
       THEN /\ ret.exc = NoExc
            /\ file.data[call.key] = call.data
            /\ \A k \in DOMAIN hist[1].data \ {call.key} :
                  k \in DOMAIN file.data /\ file.data[k] = hist[1].data[k]
       ELSE /\ ret.exc.type = "ValueError"
            /\ file = hist[1]

\* ------------------------------------------------------------ single records
\* The record readers applied to one record each: the fixture gives the tag
\* the record carries, the bytes that follow its fixed fields and the number
\* of 16-byte blocks that precede it in the file.
MaxSlack == 2

RecordFixtures ==
    {[kind |-> "def", tag |-> t, type |-> y, slack |-> s, lead |-> l] :
        t \in {"IDEF", "VDEF", "GAMI"}, y \in {"IDEF", "VDEF"},
        s \in 0..MaxSlack, l \in 0..1}
    \cup {[kind |-> "vset", tag |-> t, line |-> ln, point |-> p, lead |-> l] :
        t \in {"VSET", "VNAM"}, ln \in 0..1, p \in 0..1, l \in 0..1}
    \cup {[kind |-> "vdat", tag |-> t, sizeData |-> n, lead |-> l] :
        t \in {"VDAT", "VSET"}, n \in 0..MaxWave, l \in 0..1}
    \cup {[kind |-> "xdat", tag |-> t, slack |-> s, lead |-> l] :
        t \in {"XDAT", "VSET", "VNAM"}, s \in 0..MaxSlack, l \in 0..1}

\* The words of the record of fixture x, as the writer of the format lays
\* them out; only the tag word differs from a well-formed record.
RecordWords(x) ==
    Let([rec \in {CASE x.kind = "def" -> DefRecord(x.tag, 1, 1, ImgTitle(1), x.slack)
                    [] x.kind = "vset" -> VsetRecord(0, x.line, x.point)
                    [] x.kind = "vdat" ->
                         VdatRecord(0, 0, 0, <<0, 0, 0>>, [i \in 1..x.sizeData |-> 100 + i])
                    [] x.kind = "xdat" -> Hdr(16 + 4 * x.slack, "XDAT") \o Zeros(x.slack)} |->
        [rec EXCEPT ![3] = TagWord(x.tag)]])

RecordFile(x) == Zeros(4 * x.lead) \o RecordWords(x) \o Zeros(8)

\* The offset of the record in the file.
RecordStart == 16 * fx.lead

\* The size the header of the record declares.
RecordSize == WordAt(file, RecordStart + 4)

InitRecords ==
    /\ fx \in RecordFixtures
    /\ file = RecordFile(fx)
    /\ F = [exc |-> NoExc, parsed |-> FALSE]
    /\ call = [op |-> "none", n |-> 0]
    /\ ret = [exc |-> NoExc]
    /\ openHandles = 0
    /\ hist = <<>>

\* readARDF, line 64, and extractImages, line 176: local_readDEF(fid, address, type).
ReadDEF ==
    /\ call.op = "none" /\ fx.kind = "def"
    /\ call' = [op |-> "local_readDEF", n |-> 0]
    /\ ret' = local_readDEF(file, 0, RecordStart, fx.type)
    /\ UNCHANGED <<file, fx, F, openHandles, hist>>

\* getARDFdata, line 416: local_readVSET(fid, -1) with the cursor on the record.
ReadVSET ==
    /\ call.op = "none" /\ fx.kind = "vset"
    /\ call' = [op |-> "local_readVSET", n |-> 0]
    /\ ret' = local_readVSET(file, RecordStart, -1)
    /\ UNCHANGED <<file, fx, F, openHandles, hist>>

\* getARDFdata, line 429: local_readVDAT(fid, -1) with the cursor on the record.
ReadVDAT ==
    /\ call.op = "none" /\ fx.kind = "vdat"
    /\ call' = [op |-> "local_readVDAT", n |-> 0]
    /\ ret' = local_readVDAT(file, RecordStart, -1)
    /\ UNCHANGED <<file, fx, F, openHandles, hist>>

\* getARDFdata, line 432: local_readXDAT(fid, -1) with the cursor on the record.
ReadXDAT ==
    /\ call.op = "none" /\ fx.kind = "xdat"
    /\ call' = [op |-> "local_readXDAT", n |-> 0]
    /\ ret' = local_readXDAT(file, RecordStart, -1)
    /\ UNCHANGED <<file, fx, F, openHandles, hist>>

NextRecords == ReadDEF \/ ReadVSET \/ ReadVDAT \/ ReadXDAT

SpecRecords == InitRecords /\ [][NextRecords]_vars

\* C23: local_readDEF on a record that carries the expected tag (IDEF or
\* VDEF) and declares at least 16 + 8 + skip + 32 bytes returns with the
\* cursor at the start of the record plus the declared size, whatever the
\* slack; on a record with another tag it raises the malformed-tag error with
\* the cursor just after the 16-byte header, no field having been read.
C23_DefCursorAtDeclaredEnd ==
    (call.op = "local_readDEF")
    => IF fx.tag = fx.type
       THEN /\ ret.exc = NoExc
            /\ RecordSize = 16 + 8 + (IF fx.tag = "IDEF" THEN 96 ELSE 144) + 32 + 4 * fx.slack
            /\ ret.pos = RecordStart + RecordSize
            /\ ret.def.imageTitle = <<ImgTitle(1)>>
       ELSE /\ ret.exc = MalformedTag(fx.tag, fx.type, RecordStart + 16)
            /\ ret.pos = RecordStart + 16
            /\ ret.def = [points |-> 0, lines |-> 0, imageTitle |-> <<>>]

\* A VDEF record with MaxSlack words of slack, not at the start of the file,
\* was read to its declared end.
C23_Witness ==
    /\ call.op = "local_readDEF"
    /\ fx.tag = "VDEF" /\ fx.type = "VDEF"
    /\ fx.slack = MaxSlack /\ fx.lead = 1
    /\ ret.exc = NoExc
    /\ ret.pos = RecordStart + 16 + 8 + 144 + 32 + 4 * MaxSlack

\* C24: local_readVSET on a record with the tag VSET returns without error
\* having read five 4-byte fields and two 8-byte fields after the 16-byte
\* header: the cursor is 16 + 20 + 16 bytes after the start of the record.
\* A record with another tag is refused.
C24_VsetAdvance ==
    (call.op = "local_readVSET")
    => IF fx.tag = "VSET"
       THEN /\ ret.exc = NoExc
            /\ ret.pos = RecordStart + 16 + 20 + 16
       ELSE ret.exc = MalformedTag(fx.tag, "VSET", RecordStart + 16)

\* C25: local_readVDAT on a record with the tag VDAT reads seven 4-byte
\* fields and skips 8 bytes, so that the waveform is the sizeData words that
\* start 16 + 28 + 8 bytes after the start of the record and the cursor ends
\* just after them.  A record with another tag is refused.
C25_VdatWaveformOffset ==
    (call.op = "local_readVDAT")
    => IF fx.tag = "VDAT"
       THEN /\ ret.exc = NoExc
            /\ ret.vdat.sizeData = fx.sizeData
            /\ ret.vdat.data = BytesRead(file, RecordStart + 16 + 28 + 8, 4 * fx.sizeData)
            /\ ret.pos = RecordStart + 16 + 28 + 8 + 4 * fx.sizeData
       ELSE ret.exc = MalformedTag(fx.tag, "VDAT", RecordStart + 16)

\* C26: local_readXDAT with the cursor on a record at offset p: when the
\* record is an XDAT the cursor ends at p plus the size the header declares;
\* when it is a VSET the cursor ends at p again, so that local_readVSET called
\* next reads this very record; any other tag raises the malformed-tag error.
C26_BoundaryRecord ==
    (call.op = "local_readXDAT")
    => CASE fx.tag = "XDAT" ->
              /\ ret.exc = NoExc
              /\ RecordSize = 16 + 4 * fx.slack
              /\ ret.pos = RecordStart + RecordSize
         [] fx.tag = "VSET" ->
              /\ ret.exc = NoExc
              /\ ret.pos = RecordStart
              /\ local_readVSET(file, ret.pos, -1).exc = NoExc
              /\ local_readVSET(file, ret.pos, -1).pos = RecordStart + 48
         [] OTHER ->
              /\ ret.exc = MalformedTag(fx.tag, "XDAT or VSET", RecordStart + 16)
              /\ ret.pos = RecordStart + 16

\* A VSET record that does not start the file was met where an XDAT was
\* expected, and the cursor was put back on it.
C26_Witness ==
    /\ call.op = "local_readXDAT"
    /\ fx.tag = "VSET" /\ fx.lead = 1
    /\ ret.exc = NoExc
    /\ ret.pos = RecordStart

\* The entries of a table whose header declares a non-zero size.
SizedEntries(es) == SelectSeq(es, LAMBDA e : e.size # 0)

\* C27: local_readTOC skips the entries whose header declares size 0: it
\* returns without error and each list of the table holds exactly what the
\* entries of non-zero size put there, in file order, the entries that follow
\* a size-0 entry included.
C27_ZeroSizeEntrySkipped ==
    (call.op = "local_readTOC")
    => /\ ret.exc = NoExc
       /\ ret.toc.pntImag = PointersOf(SizedEntries(fx.entries), "IMAG")
       /\ ret.toc.pntVolm = PointersOf(SizedEntries(fx.entries), "VOLM")
       /\ ret.toc.pntNext = PointersOf(SizedEntries(fx.entries), "NEXT")
       /\ ret.toc.pntNset = PointersOf(SizedEntries(fx.entries), "NSET")
       /\ ret.toc.pntThmb = PointersOf(SizedEntries(fx.entries), "THMB")

\* ------------------------------------------------------------ channels per volume
\* Files of one or two volumes whose second volume declares its own number
\* of channels, read line by line.
ChanFixtures ==
    {[BaseFx EXCEPT !.nVolm = nv, !.lines = l, !.points = p, !.nChan = c,
                    !.reversed = rv, !.dp = 1] @@ [nChan2 |-> c2] :
        nv \in 1..2, l \in {1, MaxLines}, p \in 1..MaxPoints, c \in 1..MaxChan,
        c2 \in 1..MaxChan, rv \in BOOLEAN}

InitChan == InitWith(ChanFixtures)

NextChan ==
    \/ ReadARDF
    \/ \E getLine \in 0..(MaxLines - 1), trace \in 0..1 : GetARDFdata(getLine, trace)

SpecChan == InitChan /\ [][NextChan]_vars

\* The volume the last call of getARDFdata read (lines 386-391).
VolumeRead == GetVolm(F.FS, call.trace)

\* The number of channels the volume read declares: its VCHN records.
DeclaredChannels == Len(F.FS.volm[VolumeRead].vchn)

\* C28: a call of getARDFdata for a line of the file (its pointer is not 0)
\* returns without error having read, for each of the points of the volume
\* it reads, one VSET, one VNAM, as many VDAT as that volume declares channels
\* and one boundary record, in this order; y has one entry per point, and each
\* entry holds the waveforms of one point of the line, one per declared
\* channel, in the order of the channels.
C28_RecordsPerPoint ==
    (call.op = "getARDFdata" /\ call.getLine < fx.lines)
    => /\ ret.exc = NoExc
       /\ ret.nread = fx.points * (1 + 1 + DeclaredChannels + 1)
       /\ Len(ret.G.y) = fx.points
       /\ \A i \in 1..fx.points :
            \E p \in 0..(fx.points - 1) :
               ret.G.y[i] = [c \in 1..DeclaredChannels |->
                               Waveform(fx, VolumeRead, call.getLine, p, c)]

\* The channels of the volume in the data extract_ardf returned.
VolumeChannels == {k \in DOMAIN ret.data : ret.data[k].kind = "volume"}

\* The volume a sample of a fixture was written in (see Sample).
VolumeOfSample(s) == ((s - 1) \div (MaxWave * MaxChan * MaxPoints * MaxLines)) + 1

\* Every sample of the array a (lines of points of samples) that is not
\* padding was written in volume v.
SamplesFrom(a, v) ==
    \A i \in DOMAIN a : \A j \in DOMAIN a[i] : \A k \in DOMAIN a[i][j] :
        a[i][j][k] = NaN \/ VolumeOfSample(a[i][j][k]) = v

\* C29: when extract_ardf returns the data of a file with one volume, the
\* 'retrace' and the 'trace' array of every channel are equal, in samples and
\* in shape; for a file with two volumes the array read with trace argument
\* t (0 for 'retrace', 1 for 'trace') holds samples of volm1 when t is the
\* trace flag of volm1 and samples of volm2 otherwise.
C29_TraceSelectsVolume ==
    (call.op = "extract_ardf" /\ ret.exc = NoExc)
    => IF fx.nVolm = 1
       THEN \A k \in VolumeChannels :
               /\ ret.data[k].retrace = ret.data[k].trace
               /\ ret.attributes[k].retraceShape = ret.attributes[k].traceShape
               /\ SamplesFrom(ret.data[k].trace, 1)
       ELSE Let([FS \in {readARDF(file).D.FileStructure} |->
               \A k \in VolumeChannels :
                  /\ SamplesFrom(ret.data[k].retrace,
                                 IF 0 = FS.volm[1].trace THEN 1 ELSE 2)
                  /\ SamplesFrom(ret.data[k].trace,
                                 IF 1 = FS.volm[1].trace THEN 1 ELSE 2)])

\* The arrays of a file with one volume of MaxPoints points, with waveforms
\* of different lengths, were returned.
C29_Witness ==
    /\ call.op = "extract_ardf" /\ ret.exc = NoExc
    /\ fx.nVolm = 1 /\ fx.points = MaxPoints /\ fx.dp = 1
    /\ VolumeChannels # {}
    /\ \A k \in VolumeChannels : Len(ret.data[k].trace) = MaxPoints

\* ------------------------------------------------------------ cropped images
\* Files with images of as many rows as the volume has lines, in front of one
\* volume some of whose lines have no data.
CropFixtures ==
    {[BaseFx EXCEPT !.nImag = ni, !.imgLines = il, !.imgPoints = ip,
                    !.lines = MaxLines, !.scanDown = sd, !.zero = z] :
        ni \in 1..MaxImag, il \in {1, MaxLines}, ip \in 1..MaxImgPoints,
        sd \in BOOLEAN,
        z \in (SUBSET (0..(MaxLines - 1))) \ {{}, 0..(MaxLines - 1)}}

InitCrop == InitWith(CropFixtures)

NextCrop == ReadARDF

SpecCrop == InitCrop /\ [][NextCrop]_vars

\* The sample list readARDF decodes for image q before any row is removed.
UncroppedImage(q) == [r \in 1..fx.imgLines |-> ImgSample(fx, q, r - 1, 0)]

\* The indices the crop works on for scan direction scanDown: the rows
\* without data, mirrored to lines - i + 1 when the volume was scanned down.
CropIndices(scanDown) ==
    IF scanDown = 1 THEN {fx.lines - i + 1 : i \in fx.zero} ELSE fx.zero

\* C30: after readARDF on a file whose volume has lines without data, every
\* image sample list is the decoded list less the rows of one range: with
\* scanDown = 0 the range [min(idxZero) - 1, max(idxZero)) of the indices of
\* the zero pointers, with scanDown = 1 the range [min, max + 1) of these
\* indices mirrored to lines - i + 1.
C30_CropFollowsScanDirection ==
    (call.op = "readARDF" /\ fx.zero # {})
    => /\ ret.exc = NoExc
       /\ Len(ret.D.y) = fx.nImag
       /\ Let([scanDown \in {ret.D.FileStructure.volm[1].scanDown} |->
          Let([idx \in {CropIndices(scanDown)} |->
          Let([lo \in {(CHOOSE m \in idx : \A i \in idx : m <= i)
                       - (IF scanDown = 1 THEN 0 ELSE 1)} |->
          Let([hi \in {(CHOOSE m \in idx : \A i \in idx : m >= i)
                       + (IF scanDown = 1 THEN 1 ELSE 0)} |->
             \A q \in 1..fx.nImag :
                ret.D.y[q] = DelSlice(UncroppedImage(q), lo, hi)])])])])

====
